---- MODULE Spec2Model ----
(***************************************************************************)
(* PyEdgeTwin runtime engine: the bounded queue with its overflow          *)
(* policies (runtime/queueing.py) and the runtime controller with its      *)
(* worker pool (runtime/runner.py).                                        *)
(*                                                                         *)
(* Spec   : BoundedQueue driven by concurrent producers and a consumer.    *)
(* SpecRT : TwinRuntime start / ingestion / worker loops / stop.           *)
(***************************************************************************)
EXTENDS Integers, Sequences, FiniteSets, TLC

\* ---------------------------------------------------------------- bounds
MaxCap == 3
MaxPuts == 4
MaxCapRT == 1
MaxMsgs == 2
MaxWorkers == 2
MaxSinks == 2
NumTopics == 2
MaxMsgsLC == 1
MaxSessions == 3
MaxDelayMin == 2
MaxDelayMax == 4
MaxFails == 3
MaxDispatch == 2
MaxPatLen == 3
MaxTopicLen == 4
MaxTable == 2
MaxDispLen == 2
MaxUpdates == 3
MaxCapOrd == 2
MaxMsgsOrd == 3

\* ------------------------------------------------------------- threads
Producers == {"p1", "p2"}
Consumers == {"c1"}
NetThread == "net"
Stoppers == {"s1", "s2"}
MainStopper == "s1"
Putters == Producers \cup {NetThread}

Policies == {"drop_oldest", "drop_newest", "block"}
Timeouts == {"none", "finite"}

VARIABLES
    policy,      \* BoundedQueue._policy
    maxsize,     \* BoundedQueue._maxsize
    q,           \* BoundedQueue._queue contents, head first
    dropped,     \* BoundedQueue._dropped_count
    total_put,   \* BoundedQueue._total_put
    pc,          \* position of each putting thread inside put()
    item,        \* the item argument of the put() in progress
    timeout,     \* the timeout argument of the put() in progress
    ret,         \* outcome of the last put() of each thread
    cret,        \* outcome of the last get() of each consumer
    putCalls,    \* number of put() calls issued so far
    seen,        \* queue contents and dropped count when put_nowait raised Full
    alone,       \* no other thread touched the queue since that moment
    \* ---- TwinRuntime (runner.py)
    nworkers,    \* config.runtime.workers
    nsinksCfg,   \* number of entries of config.sinks
    healthOn,    \* config.health.enabled
    spc,         \* position of the thread executing start()
    sidx,        \* loop index inside start() (sink / topic / worker)
    startFail,   \* the step of start() that failed, "none" if none did
    running,     \* TwinRuntime._running
    model,       \* TwinRuntime._model: "none" or "ready"
    sinks,       \* TwinRuntime._sinks, one state per sink
    health,      \* TwinRuntime._health_server
    connected,   \* MQTTConnector._connected
    connRunning, \* MQTTConnector._running
    loopOn,      \* the client's network loop thread is running
    callbacks,   \* MQTTConnector._callbacks (topic indices)
    spawned,     \* TwinRuntime._worker_threads (worker ids)
    wpc,         \* position of each worker thread
    wmsg,        \* the message a worker is handling
    widx,        \* the sink a worker writes next
    messages_received,
    messages_processed,
    processing_errors,
    bad,         \* messages whose payload the lenient parse cannot default
    dequeued,    \* messages the workers took from the queue
    processCalled, \* messages passed to the transform's process()
    procRaised,  \* messages on which process() raised
    written,     \* per sink, the messages whose record write() was called with
    writeFailed, \* the <<sink, message>> pairs whose write() raised
    deqAfterRaise, \* messages dequeued after some process() call had raised
    stpc,        \* position of each thread executing stop()
    stidx,       \* loop index inside stop() (worker / sink)
    lastStop,    \* how the stop() call of each thread went: no-op or teardown
    initCalls,   \* calls of the transform's init()
    shutdownCalls, \* calls of the transform's shutdown()
    flushCalls,  \* per sink, calls of flush()
    closeCalls,  \* per sink, calls of close()
    discCalls,   \* calls of MQTTConnector.disconnect()
    healthStops, \* calls of HealthServer.stop()
    joinWarned,  \* workers logged as "did not stop cleanly"
    tdRaised,    \* the teardown calls that raised: <<call, sink index>>
    \* ---- the MQTT connector and its broker
    session,     \* the broker holds a session of this client
    sessions,    \* sessions established so far
    brokerSubs,  \* patterns the broker holds for the current session
    lost,        \* the transport was lost, on_disconnect not yet delivered
    ocpc,        \* position of the network thread inside _on_connect
    subpc,       \* position of the thread calling subscribe()
    subTopic,    \* the pattern that thread is subscribing
    delayMin,    \* config.reconnect_delay_min
    delayMax,    \* config.reconnect_delay_max
    delay,       \* MQTTConnector._reconnect_delay
    fails,       \* failed disconnects since the last successful on_connect
    dpc,         \* position of the thread calling disconnect()
    dispatched,  \* inbound messages handed to a callback
    raced,       \* the last subscribe() overlapped an on_connect handler
    table,       \* MQTTConnector._callbacks as (pattern, callback), in dict order
    dTopic,      \* segments of the topic of the last inbound message
    invoked,     \* callbacks _on_message invoked for that message
    mPattern,    \* _matches_topic: pattern.split("/")
    mTopic,      \* _matches_topic: topic.split("/")
    midx,        \* _matches_topic: loop index, counted from 1
    mResult,     \* _matches_topic: "run", or the value returned
    payload,     \* the raw message: what each field of the dict holds
    strict,      \* parse_ingress_message: the strict argument
    envelope,    \* parse_ingress_message: the IngressMessage, or the error
    pmpc,        \* position inside _process_message / the parse call
    output,      \* the dict returned by model.process, per required key
    retKeys,     \* required keys that dict held when it was returned
    record,      \* the record built by _create_record
    pmIdx,       \* _process_message: sink the write loop is at
    pmWritten,   \* sinks whose write(record) returned
    pmFailed,    \* sinks whose write(record) raised
    metrics,     \* the counters of the global RuntimeMetrics instance
    mlock,       \* RuntimeMetrics._lock: "free" or the thread holding it
    hpc,         \* position of the health-server thread in GET /metrics
    hstatus,     \* status of the response sent, 0 before
    snapshot,    \* counters read by to_dict
    upc,         \* per updating thread: position inside a record_* call
    ukind,       \* per updating thread: the counter it increments
    updates,     \* record_* calls begun so far
    rValue,      \* _create_record: the value field of the message
    rOut,        \* _create_record: the dict model.process returned
    rRecord,     \* _create_record: the record it returned
    rpc,         \* position between process() and the end of the write loop
    rIdx,        \* write loop: the sink it is at
    rGiven,      \* per sink: the record write() was called with
    got,         \* items get() has returned, in the order of return
    rlock,       \* TwinRuntime._lock: "free" or "held"
    creg,        \* per worker: the counter value it read under the lock
    connectRaised \* how the last connect() failed: "none", "timeout", "error"

qvars == <<policy, maxsize, q, dropped, total_put, pc, item, timeout, ret,
           cret, putCalls, seen, alone>>

cfgvars == <<nworkers, nsinksCfg, healthOn>>

mqvars == <<session, sessions, brokerSubs, lost, ocpc, subpc, subTopic>>

delayvars == <<delayMin, delayMax, delay, fails>>

dcvars == <<dpc, dispatched, raced>>

dispvars == <<table, dTopic, invoked>>

matchvars == <<mPattern, mTopic, midx, mResult>>

\* what the connector's own steps leave alone
pmvars == <<payload, strict, envelope, pmpc, output, retKeys, record, pmIdx,
           pmWritten, pmFailed>>

\* message processing and metrics, apart from the connector
metricvars == <<metrics, mlock, hpc, hstatus, snapshot, upc, ukind, updates>>

\* record building, and the log of what get() returned
recvars == <<rValue, rOut, rRecord, rpc, rIdx, rGiven>>

lockvars == <<rlock, creg>>

latevars == <<recvars, got, lockvars, connectRaised>>

appvars == <<pmvars, metricvars, latevars>>

sidevars == <<dispvars, matchvars, appvars>>

auxvars == <<delayvars, dcvars, sidevars>>

\* what the runtime's and the queue's own steps leave alone
envvars == <<cfgvars, auxvars, mqvars>>

startvars == <<spc, sidx, startFail>>

compvars == <<running, model, sinks, health, connected, connRunning, loopOn,
              callbacks, spawned>>

wvars == <<wpc, wmsg, widx>>

cntvars == <<messages_received, messages_processed, processing_errors>>

logvars == <<bad, dequeued, processCalled, procRaised, written, writeFailed,
             deqAfterRaise>>

callvars == <<initCalls, shutdownCalls, flushCalls, closeCalls, discCalls,
              healthStops, joinWarned, tdRaised>>

stopvars == <<stpc, stidx, lastStop, callvars>>

rtvars == <<envvars, startvars, compvars, wvars, cntvars, logvars, stopvars>>

vars == <<qvars, rtvars>>

\* ------------------------------------------------- queue.Queue primitives
\* queue.Queue keeps its own mutex: put_nowait / get_nowait / put / get are
\* each one atomic test-and-update of the underlying deque.
HasRoomAlways(s) == TRUE

HasRoom(s) == Len(s) < maxsize

NoItem(s) == Len(s) = 0

\* get_nowait takes the item at the head of the deque
RemoveNewest(s) == SubSeq(s, 1, Len(s) - 1)

RemoveOldest(s) == Tail(s)

\* every other thread loses its "undisturbed" mark when t changes the queue
Disturb(t) == [p \in Putters |-> IF p = t THEN alone[p] ELSE FALSE]

\* with self._lock: self._total_put += 1
CountAdmittedOnly(n, s) == IF Len(s) < maxsize THEN n + 1 ELSE n

IncTotalPut(n, s) == n + 1

\* _handle_overflow dispatch on self._policy
OverflowDispatchOldest(pol) == "do_get"

OverflowDispatchNewest(pol) == "dn_inc"

OverflowDispatch(pol) ==
    CASE pol = "drop_oldest" -> "do_get"
      [] pol = "drop_newest" -> "dn_inc"
      [] pol = "block" -> "blk_put"

\* ------------------------------------------------------------ put steps
Return(p, r) ==
    /\ pc' = [pc EXCEPT ![p] = "idle"]
    /\ ret' = [ret EXCEPT ![p] = r]

\* a caller enters put(item, timeout)
PutCall(p) ==
    /\ pc[p] = "idle"
    /\ putCalls < MaxPuts
    /\ putCalls' = putCalls + 1
    /\ \E to \in Timeouts : timeout' = [timeout EXCEPT ![p] = to]
    /\ item' = [item EXCEPT ![p] = putCalls + 1]
    /\ pc' = [pc EXCEPT ![p] = "inc"]
    /\ ret' = [ret EXCEPT ![p] = "pending"]
    /\ UNCHANGED <<policy, maxsize, q, dropped, total_put, cret, seen, alone>>

\* lines 75-76
PutCount(p) ==
    /\ pc[p] = "inc"
    /\ total_put' = IncTotalPut(total_put, q)
    /\ pc' = [pc EXCEPT ![p] = "try"]
    /\ UNCHANGED <<policy, maxsize, q, dropped, item, timeout, ret, cret,
                   putCalls, seen, alone>>

\* lines 78-82: put_nowait, or Full caught and _handle_overflow entered
PutTry(p) ==
    /\ pc[p] = "try"
    /\ IF HasRoom(q)
         THEN /\ q' = Append(q, item[p])
              /\ Return(p, "true")
              /\ alone' = Disturb(p)
              /\ UNCHANGED seen
         ELSE /\ pc' = [pc EXCEPT ![p] = OverflowDispatch(policy)]
              /\ seen' = [seen EXCEPT ![p] = [q |-> q, dropped |-> dropped]]
              /\ alone' = [alone EXCEPT ![p] = TRUE]
              /\ UNCHANGED <<q, ret>>
    /\ UNCHANGED <<policy, maxsize, dropped, total_put, item, timeout, cret,
                   putCalls>>

\* line 93: get_nowait of the oldest item, or Empty caught at line 99
DropOldestGet(p) ==
    /\ pc[p] = "do_get"
    /\ IF NoItem(q)
         THEN /\ pc' = [pc EXCEPT ![p] = "retry_put"]
              /\ UNCHANGED <<q, alone>>
         ELSE /\ q' = RemoveOldest(q)
              /\ pc' = [pc EXCEPT ![p] = "do_inc"]
              /\ alone' = Disturb(p)
    /\ UNCHANGED <<policy, maxsize, dropped, total_put, item, timeout, ret,
                   cret, putCalls, seen>>

\* lines 94-95
DropOldestCount(p) ==
    /\ pc[p] = "do_inc"
    /\ dropped' = dropped + 1
    /\ pc' = [pc EXCEPT ![p] = "do_put"]
    /\ alone' = Disturb(p)
    /\ UNCHANGED <<policy, maxsize, q, total_put, item, timeout, ret, cret,
                   putCalls, seen>>

\* lines 97-98: put_nowait inside "try ... except queue.Empty": a Full raised
\* here is not caught and leaves put()
DropOldestPut(p) ==
    /\ pc[p] = "do_put"
    /\ IF HasRoom(q)
         THEN /\ q' = Append(q, item[p])
              /\ Return(p, "true")
              /\ alone' = Disturb(p)
         ELSE /\ Return(p, "raise_Full")
              /\ UNCHANGED <<q, alone>>
    /\ UNCHANGED <<policy, maxsize, dropped, total_put, item, timeout, cret,
                   putCalls, seen>>

\* lines 101-104
DropOldestRetryPut(p) ==
    /\ pc[p] = "retry_put"
    /\ IF HasRoom(q)
         THEN /\ q' = Append(q, item[p])
              /\ Return(p, "true")
              /\ alone' = Disturb(p)
         ELSE /\ pc' = [pc EXCEPT ![p] = "retry_inc"]
              /\ UNCHANGED <<q, ret, alone>>
    /\ UNCHANGED <<policy, maxsize, dropped, total_put, item, timeout, cret,
                   putCalls, seen>>

\* lines 105-107
DropOldestRetryCount(p) ==
    /\ pc[p] = "retry_inc"
    /\ dropped' = dropped + 1
    /\ Return(p, "false")
    /\ alone' = Disturb(p)
    /\ UNCHANGED <<policy, maxsize, q, total_put, item, timeout, cret,
                   putCalls, seen>>

\* lines 109-114
DropNewest(p) ==
    /\ pc[p] = "dn_inc"
    /\ dropped' = dropped + 1
    /\ Return(p, "false")
    /\ alone' = Disturb(p)
    /\ UNCHANGED <<policy, maxsize, q, total_put, item, timeout, cret,
                   putCalls, seen>>

\* lines 116-120: queue.put(block=True, timeout) admits once there is room
BlockAdmit(p) ==
    /\ pc[p] = "blk_put"
    /\ HasRoom(q)
    /\ q' = Append(q, item[p])
    /\ Return(p, "true")
    /\ alone' = Disturb(p)
    /\ UNCHANGED <<policy, maxsize, dropped, total_put, item, timeout, cret,
                   putCalls, seen>>

\* lines 121-125: the timed wait ends with the queue still full
BlockTimeout(p) ==
    /\ pc[p] = "blk_put"
    /\ timeout[p] = "finite"
    /\ ~HasRoom(q)
    /\ Return(p, "raise_QueueOverflowError")
    /\ UNCHANGED <<policy, maxsize, q, dropped, total_put, item, timeout,
                   cret, putCalls, seen, alone>>

PutStep(p) ==
    \/ PutCount(p)
    \/ PutTry(p)
    \/ DropOldestGet(p)
    \/ DropOldestCount(p)
    \/ DropOldestPut(p)
    \/ DropOldestRetryPut(p)
    \/ DropOldestRetryCount(p)
    \/ DropNewest(p)
    \/ BlockAdmit(p)
    \/ BlockTimeout(p)

\* ------------------------------------------------------------ get steps
\* lines 129-142: get(timeout) returns the head
Get(c) ==
    /\ ~NoItem(q)
    /\ cret' = [cret EXCEPT ![c] = [kind |-> "item", v |-> Head(q)]]
    /\ q' = Tail(q)
    /\ alone' = [p \in Putters |-> FALSE]
    /\ UNCHANGED <<policy, maxsize, dropped, total_put, pc, item, timeout,
                   ret, putCalls, seen>>

\* lines 129-142: get(timeout) raises queue.Empty when nothing arrives
GetEmpty(c) ==
    /\ NoItem(q)
    /\ cret[c].kind # "raise_Empty"
    /\ cret' = [cret EXCEPT ![c] = [kind |-> "raise_Empty", v |-> 0]]
    /\ UNCHANGED <<policy, maxsize, q, dropped, total_put, pc, item, timeout,
                   ret, putCalls, seen, alone>>

\* ------------------------------------------------------ queue alone: Spec
\* lines 28-55
QInit ==
    /\ policy \in Policies
    /\ maxsize \in 1..MaxCap
    /\ q = <<>>
    /\ dropped = 0
    /\ total_put = 0
    /\ pc = [p \in Putters |-> "idle"]
    /\ item = [p \in Putters |-> 0]
    /\ timeout = [p \in Putters |-> "none"]
    /\ ret = [p \in Putters |-> "none"]
    /\ cret = [c \in Consumers |-> [kind |-> "none", v |-> 0]]
    /\ putCalls = 0
    /\ seen = [p \in Putters |-> [q |-> <<>>, dropped |-> 0]]
    /\ alone = [p \in Putters |-> TRUE]

\* mqtt.py lines 37-50: MQTTConnector.__init__, and a broker that holds no
\* session of the client
MQIdle ==
    /\ session = FALSE
    /\ sessions = 0
    /\ brokerSubs = {}
    /\ lost = FALSE
    /\ ocpc = "idle"
    /\ subpc = "idle"
    /\ subTopic = 0

\* mqtt.py line 48 with the default delays of config.py lines 22-23, scaled
DelayIdle ==
    /\ delayMin = 1
    /\ delayMax = MaxDelayMax
    /\ delay = 1
    /\ fails = 0

\* no disconnect() call, no message dispatched
DiscIdle ==
    /\ dpc = "idle"
    /\ dispatched = 0
    /\ raced = FALSE

\* an empty subscription table, no message seen
DispIdle ==
    /\ table = <<>>
    /\ dTopic = <<>>
    /\ invoked = {}

\* no _matches_topic call
MatchIdle ==
    /\ mPattern = <<>>
    /\ mTopic = <<>>
    /\ midx = 0
    /\ mResult = "none"

RequiredKeys == {"raw_value", "twin_estimate", "anomaly_flag"}

NoPayload == [asset |-> "absent", ts |-> "absent", value |-> "absent"]

NoEnvelope == [status |-> "none", asset |-> "none", ts |-> "none", value |-> "none"]

NoRecord == [raw_value |-> "none", twin_estimate |-> "none", anomaly_flag |-> "none",
             timestamp |-> "none"]

\* no message being processed
PMIdle ==
    /\ payload = NoPayload
    /\ strict = FALSE
    /\ envelope = NoEnvelope
    /\ pmpc = "idle"
    /\ output = [k \in RequiredKeys |-> "none"]
    /\ retKeys = {}
    /\ record = NoRecord
    /\ pmIdx = 0
    /\ pmWritten = {}
    /\ pmFailed = {}

Updaters == {"u1", "u2"}

\* metrics.py lines 21-28
CounterNames ==
    {"messages_received", "messages_processed", "messages_dropped",
     "processing_errors", "sink_write_errors", "connection_errors"}

\* a fresh RuntimeMetrics (lines 21-36), no request, no update in progress
MetricsIdle ==
    /\ metrics = [c \in CounterNames |-> 0]
    /\ mlock = "free"
    /\ hpc = "idle"
    /\ hstatus = 0
    /\ snapshot = [c \in CounterNames |-> 0]
    /\ upc = [u \in Updaters |-> "idle"]
    /\ ukind = [u \in Updaters |-> "none"]
    /\ updates = 0

\* the value a dict lookup gives for an absent key, and an unbuilt record
None == "None"

NoDict == << >>

\* no message between process() and the sinks
RecIdle ==
    /\ rValue = 0
    /\ rOut = NoDict
    /\ rRecord = NoDict
    /\ rpc = "idle"
    /\ rIdx = 0
    /\ rGiven = [i \in 1..MaxSinks |-> NoDict]

\* TwinRuntime._lock as __init__ creates it (runner.py line 63)
LockIdle ==
    /\ rlock = "free"
    /\ creg = [w \in 1..MaxWorkers |-> 0]

LateIdle ==
    /\ RecIdle
    /\ got = << >>
    /\ LockIdle
    /\ connectRaised = "none"

AppIdle ==
    /\ PMIdle
    /\ MetricsIdle
    /\ LateIdle

AuxIdle ==
    /\ DelayIdle
    /\ DiscIdle
    /\ DispIdle
    /\ MatchIdle
    /\ AppIdle

\* TwinRuntime.__init__ (runner.py lines 40-63) with a fixed configuration
CfgIdle ==
    /\ nworkers = 1
    /\ nsinksCfg = 0
    /\ healthOn = FALSE

\* runner.py lines 47-53: no component yet
CompIdle ==
    /\ running = FALSE
    /\ model = "none"
    /\ sinks = <<>>
    /\ health = "none"
    /\ connected = FALSE
    /\ connRunning = FALSE
    /\ loopOn = FALSE
    /\ callbacks = {}
    /\ spawned = {}

\* runner.py lines 54-63: start() not begun, no worker, counters at zero
RunIdle ==
    /\ spc = "new"
    /\ sidx = 0
    /\ startFail = "none"
    /\ wpc = [w \in 1..MaxWorkers |-> "unstarted"]
    /\ wmsg = [w \in 1..MaxWorkers |-> 0]
    /\ widx = [w \in 1..MaxWorkers |-> 0]
    /\ messages_received = 0
    /\ messages_processed = 0
    /\ processing_errors = 0
    /\ bad = {}
    /\ dequeued = {}
    /\ processCalled = {}
    /\ procRaised = {}
    /\ written = [i \in 1..MaxSinks |-> {}]
    /\ writeFailed = {}
    /\ deqAfterRaise = {}
    /\ stpc = [s \in Stoppers |-> "idle"]
    /\ stidx = [s \in Stoppers |-> 0]
    /\ lastStop = [s \in Stoppers |-> "none"]
    /\ initCalls = 0
    /\ shutdownCalls = 0
    /\ flushCalls = [i \in 1..MaxSinks |-> 0]
    /\ closeCalls = [i \in 1..MaxSinks |-> 0]
    /\ discCalls = 0
    /\ healthStops = 0
    /\ joinWarned = {}
    /\ tdRaised = {}

RTCoreIdle ==
    /\ CfgIdle
    /\ CompIdle
    /\ RunIdle

RTIdle ==
    /\ RTCoreIdle
    /\ MQIdle
    /\ AuxIdle

Init == QInit /\ RTIdle

Next ==
    /\ \/ \E p \in Producers : PutCall(p)
       \/ \E p \in Producers : PutStep(p)
       \/ \E c \in Consumers : Get(c)
       \/ \E c \in Consumers : GetEmpty(c)
    /\ UNCHANGED rtvars

Spec == Init /\ [][Next]_vars

\* ==================================================== TwinRuntime: SpecRT
Workers == 1..MaxWorkers

\* --------------------------------------------------------------- start()
\* the error leaves start(): nothing after the failing statement runs
StartSwallow(step) ==
    /\ spc' = "set_running"
    /\ startFail' = step

StartRaise(step) ==
    /\ spc' = "raised"
    /\ startFail' = step

\* _start_health_server lines 165-166: the failure is logged, start() goes on
HealthFailure(step) ==
    /\ spc' = "set_running"
    /\ startFail' = step

\* lines 72-83: the queue is constructed
StartQueue ==
    /\ spc = "new"
    /\ spc' = "model"
    /\ UNCHANGED <<qvars, envvars, sidx, startFail, compvars, wvars, cntvars,
                   logvars, stopvars>>

\* lines 54 and 92: self._model before and after load_model_block
UnloadedModel == "none"

LoadedModel == "ready"

\* lines 85-93 and loader.py 40-76: import, instantiate, init(context); the
\* load fails before init() is reached (import, subclass test, constructor)
\* or inside init()
StartModel ==
    /\ spc = "model"
    /\ \/ /\ model' = LoadedModel
          /\ initCalls' = initCalls + 1
          /\ spc' = "sinks"
          /\ sidx' = 1
          /\ UNCHANGED startFail
       \/ /\ StartRaise("model")
          /\ initCalls' \in {initCalls, initCalls + 1}
          /\ UNCHANGED <<model, sidx>>
    /\ UNCHANGED <<qvars, envvars, running, sinks, health, connected,
                   connRunning, loopOn, callbacks, spawned, wvars, cntvars,
                   logvars, stpc, stidx, lastStop, shutdownCalls, flushCalls,
                   closeCalls, discCalls, healthStops, joinWarned, tdRaised>>

\* lines 134-136: the default StdoutSink, opened
NoDefaultSinks == <<>>

DefaultSinks == <<"open">>

\* _init_sinks lines 131-137: no sink configured, StdoutSink is installed
StartDefaultSink ==
    /\ spc = "sinks"
    /\ nsinksCfg = 0
    /\ sinks' = DefaultSinks
    /\ spc' = "connect"
    /\ UNCHANGED <<qvars, envvars, sidx, startFail, running, model, health,
                   connected, connRunning, loopOn, callbacks, spawned, wvars,
                   cntvars, logvars, stopvars>>

\* _init_sinks lines 139-147: create_sink + open for the next configured sink
StartSink ==
    /\ spc = "sinks"
    /\ nsinksCfg > 0
    /\ \/ /\ sinks' = Append(sinks, "open")
          /\ IF sidx = nsinksCfg
               THEN spc' = "connect" /\ sidx' = 0
               ELSE spc' = spc /\ sidx' = sidx + 1
          /\ UNCHANGED startFail
       \/ /\ StartRaise("sink")
          /\ UNCHANGED <<sinks, sidx>>
    /\ UNCHANGED <<qvars, envvars, running, model, health, connected,
                   connRunning, loopOn, callbacks, spawned, wvars, cntvars,
                   logvars, stopvars>>

\* mqtt.py lines 59-90: client.connect and loop_start, or a transport error
StartConnect ==
    /\ spc = "connect"
    /\ \/ /\ connRunning' = TRUE
          /\ loopOn' = TRUE
          /\ spc' = "connwait"
          /\ UNCHANGED startFail
       \/ /\ connRunning' = FALSE
          /\ StartRaise("connect")
          /\ UNCHANGED loopOn
    /\ UNCHANGED <<qvars, envvars, sidx, running, model, sinks, health,
                   connected, callbacks, spawned, wvars, cntvars, logvars,
                   stopvars>>

\* mqtt.py lines 92-106: wait for the session, or time out
StartConnWait ==
    /\ spc = "connwait"
    /\ IF connected
         THEN /\ spc' = "subscribe"
              /\ sidx' = 1
              /\ UNCHANGED <<startFail, connRunning>>
         ELSE /\ connRunning' = FALSE
              /\ StartRaise("connect")
              /\ UNCHANGED sidx
    /\ UNCHANGED <<qvars, envvars, running, model, sinks, health, connected,
                   loopOn, callbacks, spawned, wvars, cntvars, logvars,
                   stopvars>>

\* runner.py lines 103-105 and mqtt.py 222-239: register the callback, then
\* subscribe at the broker when connected (the client call may raise)
StartSubscribe ==
    /\ spc = "subscribe"
    /\ callbacks' = callbacks \cup {sidx}
    /\ \/ /\ IF sidx = NumTopics
               THEN spc' = (IF healthOn THEN "health" ELSE "set_running")
                    /\ sidx' = 0
               ELSE spc' = spc /\ sidx' = sidx + 1
          /\ UNCHANGED startFail
       \/ /\ connected
          /\ StartRaise("subscribe")
          /\ UNCHANGED sidx
    /\ UNCHANGED <<qvars, envvars, running, model, sinks, health, connected,
                   connRunning, loopOn, spawned, wvars, cntvars, logvars,
                   stopvars>>

\* runner.py lines 107-109 and 149-166
StartHealth ==
    /\ spc = "health"
    /\ \/ /\ health' = "started"
          /\ spc' = "set_running"
          /\ UNCHANGED startFail
       \/ /\ health' \in {"none", "created"}
          /\ HealthFailure("health")
    /\ UNCHANGED <<qvars, envvars, sidx, running, model, sinks, connected,
                   connRunning, loopOn, callbacks, spawned, wvars, cntvars,
                   logvars, stopvars>>

\* line 112
StartSetRunning ==
    /\ spc = "set_running"
    /\ running' = TRUE
    /\ spc' = "spawn"
    /\ sidx' = 1
    /\ UNCHANGED <<qvars, envvars, startFail, model, sinks, health, connected,
                   connRunning, loopOn, callbacks, spawned, wvars, cntvars,
                   logvars, stopvars>>

\* lines 113-127: start the next worker thread, return after the last one
StartSpawn ==
    /\ spc = "spawn"
    /\ wpc' = [wpc EXCEPT ![sidx] = "loop"]
    /\ spawned' = spawned \cup {sidx}
    /\ IF sidx = nworkers
         THEN spc' = "done" /\ sidx' = 0
         ELSE spc' = spc /\ sidx' = sidx + 1
    /\ UNCHANGED <<qvars, envvars, startFail, running, model, sinks, health,
                   connected, connRunning, loopOn, callbacks, wmsg, widx,
                   cntvars, logvars, stopvars>>

StartStep ==
    \/ StartQueue
    \/ StartModel
    \/ StartDefaultSink
    \/ StartSink
    \/ StartConnect
    \/ StartConnWait
    \/ StartSubscribe
    \/ StartHealth
    \/ StartSetRunning
    \/ StartSpawn

\* ------------------------------------------------ the network loop thread
\* mqtt.py lines 108-133: the broker accepted the session
NetOnConnect ==
    /\ loopOn
    /\ ~connected
    /\ connected' = TRUE
    /\ UNCHANGED <<qvars, envvars, startvars, running, model, sinks, health,
                   connRunning, loopOn, callbacks, spawned, wvars, cntvars,
                   logvars, stopvars>>

\* mqtt.py lines 135-163: the session is lost while the loop keeps running;
\* paho reconnects by itself and on_connect is delivered again
NetOnDisconnect ==
    /\ loopOn
    /\ connected
    /\ pc[NetThread] = "idle"
    /\ connected' = FALSE
    /\ UNCHANGED <<qvars, envvars, startvars, running, model, sinks, health,
                   connRunning, loopOn, callbacks, spawned, wvars, cntvars,
                   logvars, stopvars>>

\* mqtt.py lines 165-183 and runner.py lines 182-194: a message on a
\* subscribed topic is counted and handed to BoundedQueue.put(timeout=1.0)
OnMessageUpTo(n) ==
    /\ loopOn
    /\ connected
    /\ callbacks # {}
    /\ pc[NetThread] = "idle"
    /\ putCalls < n
    /\ messages_received' = messages_received + 1
    /\ putCalls' = putCalls + 1
    /\ item' = [item EXCEPT ![NetThread] = putCalls + 1]
    /\ timeout' = [timeout EXCEPT ![NetThread] = "finite"]
    /\ pc' = [pc EXCEPT ![NetThread] = "inc"]
    /\ ret' = [ret EXCEPT ![NetThread] = "pending"]
    /\ \E isBad \in BOOLEAN :
         bad' = IF isBad THEN bad \cup {putCalls + 1} ELSE bad
    /\ UNCHANGED <<policy, maxsize, q, dropped, total_put, cret, seen, alone,
                   envvars, startvars, compvars, wvars, messages_processed,
                   processing_errors, dequeued, processCalled, procRaised,
                   written, writeFailed, deqAfterRaise, stopvars>>

OnMessage == OnMessageUpTo(MaxMsgs)

\* the put() of the ingestion callback
NetPut ==
    /\ PutStep(NetThread)
    /\ UNCHANGED rtvars

\* ------------------------------------------------------------ worker loop
\* line 206
WLoop(w) ==
    /\ wpc[w] = "loop"
    /\ wpc' = [wpc EXCEPT ![w] = IF running THEN "get" ELSE "exited"]
    /\ UNCHANGED <<qvars, envvars, startvars, compvars, wmsg, widx, cntvars,
                   logvars, stopvars>>

\* queueing.py lines 129-142: get() hands out the item queued first
Newest(s) == s[Len(s)]

Oldest(s) == Head(s)

\* lines 209-210: queue.get(timeout=1.0) returns the head
WGet(w) ==
    /\ wpc[w] = "get"
    /\ ~NoItem(q)
    /\ wmsg' = [wmsg EXCEPT ![w] = Oldest(q)]
    /\ q' = Tail(q)
    /\ alone' = [p \in Putters |-> FALSE]
    /\ dequeued' = dequeued \cup {Head(q)}
    /\ deqAfterRaise' = IF procRaised # {} THEN deqAfterRaise \cup {Head(q)}
                                          ELSE deqAfterRaise
    /\ wpc' = [wpc EXCEPT ![w] = "parse"]
    /\ UNCHANGED <<policy, maxsize, dropped, total_put, pc, item, timeout,
                   ret, cret, putCalls, seen, envvars, startvars, compvars,
                   widx, cntvars, bad, processCalled, procRaised, written,
                   writeFailed, stopvars>>

\* lines 211-212: queue.Empty after the poll timeout, continue
WGetTimeout(w) ==
    /\ wpc[w] = "get"
    /\ NoItem(q)
    /\ wpc' = [wpc EXCEPT ![w] = "loop"]
    /\ UNCHANGED <<qvars, envvars, startvars, compvars, wmsg, widx, cntvars,
                   logvars, stopvars>>

\* lines 230-236 and schemas.py 105-116: the lenient parse falls back to
\* defaults; float(raw["value"]) / asset_id validation in the fallback can
\* still raise, which lands in the handler of line 262
WParse(w) ==
    /\ wpc[w] = "parse"
    /\ wpc' = [wpc EXCEPT ![w] =
                 IF wmsg[w] \in bad \/ model = "none" THEN "err" ELSE "process"]
    /\ UNCHANGED <<qvars, envvars, startvars, compvars, wmsg, widx, cntvars,
                   logvars, stopvars>>

\* a worker that carried on to the sinks after process() raised
AfterProcessRaiseWrite == "write"

\* line 262: where a worker continues when process() raised
AfterProcessRaise == "err"

\* lines 238-250: process(), validation and backfill, record construction
WProcess(w) ==
    /\ wpc[w] = "process"
    /\ processCalled' = processCalled \cup {wmsg[w]}
    /\ \/ /\ wpc' = [wpc EXCEPT ![w] = "write"]
          /\ widx' = [widx EXCEPT ![w] = 1]
          /\ UNCHANGED procRaised
       \/ /\ wpc' = [wpc EXCEPT ![w] = AfterProcessRaise]
          /\ procRaised' = procRaised \cup {wmsg[w]}
          /\ UNCHANGED widx
    /\ UNCHANGED <<qvars, envvars, startvars, compvars, wmsg, cntvars, bad,
                   dequeued, written, writeFailed, deqAfterRaise, stopvars>>

\* where the fan-out continues after write() on sink i returned or raised
AfterWriteAbort(i, ok) ==
    IF ~ok THEN [pc |-> "err", idx |-> i]
    ELSE IF i < Len(sinks) THEN [pc |-> "write", idx |-> i + 1]
    ELSE [pc |-> "count", idx |-> i]

AfterWrite(i, ok) ==
    IF i < Len(sinks) THEN [pc |-> "write", idx |-> i + 1]
    ELSE [pc |-> "count", idx |-> i]

\* lines 252-257: write() on the next sink of the list; an error is logged
WWrite(w) ==
    /\ wpc[w] = "write"
    /\ written' = [written EXCEPT ![widx[w]] = @ \cup {wmsg[w]}]
    /\ \E ok \in BOOLEAN :
         /\ wpc' = [wpc EXCEPT ![w] = AfterWrite(widx[w], ok).pc]
         /\ widx' = [widx EXCEPT ![w] = AfterWrite(widx[w], ok).idx]
         /\ writeFailed' = IF ok THEN writeFailed
                                 ELSE writeFailed \cup {<<widx[w], wmsg[w]>>}
    /\ UNCHANGED <<qvars, envvars, startvars, compvars, wmsg, cntvars, bad,
                   dequeued, processCalled, procRaised, deqAfterRaise,
                   stopvars>>

\* lines 259-260, then task_done (line 216)
WCount(w) ==
    /\ wpc[w] = "count"
    /\ messages_processed' = messages_processed + 1
    /\ wpc' = [wpc EXCEPT ![w] = "loop"]
    /\ UNCHANGED <<qvars, envvars, startvars, compvars, wmsg, widx,
                   messages_received, processing_errors, logvars, stopvars>>

\* lines 262-265, then task_done (line 216)
WErr(w) ==
    /\ wpc[w] = "err"
    /\ processing_errors' = processing_errors + 1
    /\ wpc' = [wpc EXCEPT ![w] = "loop"]
    /\ UNCHANGED <<qvars, envvars, startvars, compvars, wmsg, widx,
                   messages_received, messages_processed, logvars, stopvars>>

WorkerStep(w) ==
    \/ WLoop(w)
    \/ WGet(w)
    \/ WGetTimeout(w)
    \/ WParse(w)
    \/ WProcess(w)
    \/ WWrite(w)
    \/ WCount(w)
    \/ WErr(w)

\* ---------------------------------------------------------------- stop()
\* the sink stop() turns to after sink i, or the step after the sink loop
NextSinkOrHealth(s, i) ==
    IF i < Len(sinks)
      THEN /\ stpc' = [stpc EXCEPT ![s] = "flush"]
           /\ stidx' = [stidx EXCEPT ![s] = i + 1]
      ELSE /\ stpc' = [stpc EXCEPT ![s] = "health"]
           /\ stidx' = [stidx EXCEPT ![s] = 0]

NextSinkOrDisc(s, i) ==
    IF i < Len(sinks)
      THEN /\ stpc' = [stpc EXCEPT ![s] = "flush"]
           /\ stidx' = [stidx EXCEPT ![s] = i + 1]
      ELSE /\ stpc' = [stpc EXCEPT ![s] = "disc"]
           /\ stidx' = [stidx EXCEPT ![s] = 0]

\* lines 318-319: the handler inside the loop body logs the error of a
\* flush() or close() and the loop goes on with the next sink
AfterSinkErrorAbort(s, i) ==
    /\ stpc' = [stpc EXCEPT ![s] = "disc"]
    /\ stidx' = [stidx EXCEPT ![s] = 0]

AfterSinkError(s, i) == NextSinkOrDisc(s, i)

\* line 293: the test of the running flag that opens stop()
SkipRunningTest == TRUE

RunningTest == running

\* lines 293-296: stop() is entered; it returns at once when the running
\* flag is not set
StopCall(s) ==
    /\ stpc[s] = "idle"
    /\ lastStop[s] = "none"
    /\ spc \in {"new", "done", "raised"}
    /\ IF RunningTest
         THEN /\ stpc' = [stpc EXCEPT ![s] = "clear"]
              /\ UNCHANGED lastStop
         ELSE /\ lastStop' = [lastStop EXCEPT ![s] = "noop"]
              /\ UNCHANGED stpc
    /\ UNCHANGED <<qvars, envvars, startvars, compvars, wvars, cntvars,
                   logvars, stidx, callvars>>

\* line 297
StopClear(s) ==
    /\ stpc[s] = "clear"
    /\ running' = FALSE
    /\ stpc' = [stpc EXCEPT ![s] = "join"]
    /\ stidx' = [stidx EXCEPT ![s] = 1]
    /\ UNCHANGED <<qvars, envvars, startvars, model, sinks, health, connected,
                   connRunning, loopOn, callbacks, spawned, wvars, cntvars,
                   logvars, lastStop, callvars>>

\* lines 302-303: the warning for a worker that is alive after the join
JoinSilent(w) == joinWarned

JoinOutcome(w) ==
    IF wpc[w] = "exited" THEN joinWarned ELSE joinWarned \cup {w}

\* lines 300-303: join(timeout=5.0) returns when the worker has exited, or
\* with the worker still alive, which is logged as a warning
StopJoin(s) ==
    /\ stpc[s] = "join"
    /\ joinWarned' = JoinOutcome(stidx[s])
    /\ IF stidx[s] < nworkers
         THEN /\ stidx' = [stidx EXCEPT ![s] = @ + 1]
              /\ UNCHANGED stpc
         ELSE /\ stpc' = [stpc EXCEPT ![s] = "model"]
              /\ stidx' = [stidx EXCEPT ![s] = 0]
    /\ UNCHANGED <<qvars, envvars, startvars, compvars, wvars, cntvars,
                   logvars, lastStop, initCalls, shutdownCalls, flushCalls,
                   closeCalls, discCalls, healthStops, tdRaised>>

\* lines 307-311: where stop() goes on after shutdown() returned or raised;
\* the handler of line 310 logs the error
AfterShutdownAbort(s, ok) ==
    IF ok
      THEN /\ stpc' = [stpc EXCEPT ![s] = "flush"]
           /\ stidx' = [stidx EXCEPT ![s] = 1]
           /\ UNCHANGED lastStop
      ELSE /\ stpc' = [stpc EXCEPT ![s] = "idle"]
           /\ lastStop' = [lastStop EXCEPT ![s] = "raised"]
           /\ UNCHANGED stidx

AfterShutdown(s, ok) ==
    /\ stpc' = [stpc EXCEPT ![s] = "flush"]
    /\ stidx' = [stidx EXCEPT ![s] = 1]
    /\ UNCHANGED lastStop

\* lines 306-311: shutdown() of the transform
StopModel(s) ==
    /\ stpc[s] = "model"
    /\ model' = "shutdown"
    /\ shutdownCalls' = shutdownCalls + 1
    /\ \E ok \in BOOLEAN :
         /\ tdRaised' = IF ok THEN tdRaised
                        ELSE tdRaised \cup {<<"shutdown", 0>>}
         /\ AfterShutdown(s, ok)
    /\ UNCHANGED <<qvars, envvars, startvars, running, sinks, health,
                   connected, connRunning, loopOn, callbacks, spawned, wvars,
                   cntvars, logvars, initCalls, flushCalls, closeCalls,
                   discCalls, healthStops, joinWarned>>

\* lines 314-319: flush() of the next sink; when it raises, the handler of
\* line 318 is entered and close() of this sink is not reached
StopFlush(s) ==
    /\ stpc[s] = "flush"
    /\ flushCalls' = [flushCalls EXCEPT ![stidx[s]] = @ + 1]
    /\ \/ /\ stpc' = [stpc EXCEPT ![s] = "close"]
          /\ UNCHANGED <<stidx, tdRaised>>
       \/ /\ tdRaised' = tdRaised \cup {<<"flush", stidx[s]>>}
          /\ AfterSinkError(s, stidx[s])
    /\ UNCHANGED <<qvars, envvars, startvars, compvars, wvars, cntvars,
                   logvars, lastStop, initCalls, shutdownCalls, closeCalls,
                   discCalls, healthStops, joinWarned>>

\* lines 317-319: close() of the sink just flushed; an error is logged
StopClose(s) ==
    /\ stpc[s] = "close"
    /\ closeCalls' = [closeCalls EXCEPT ![stidx[s]] = @ + 1]
    /\ sinks' = [sinks EXCEPT ![stidx[s]] = "closed"]
    /\ \/ /\ NextSinkOrDisc(s, stidx[s])
          /\ UNCHANGED tdRaised
       \/ /\ tdRaised' = tdRaised \cup {<<"close", stidx[s]>>}
          /\ AfterSinkError(s, stidx[s])
    /\ UNCHANGED <<qvars, envvars, startvars, running, model, health,
                   connected, connRunning, loopOn, callbacks, spawned, wvars,
                   cntvars, logvars, lastStop, initCalls, shutdownCalls,
                   flushCalls, discCalls, healthStops, joinWarned>>

\* lines 322-323 and mqtt.py 260-273: loop_stop joins the network thread,
\* errors of the client are caught inside disconnect()
StopDisconnect(s) ==
    /\ stpc[s] = "disc"
    /\ pc[NetThread] = "idle"
    /\ connRunning' = FALSE
    /\ loopOn' = FALSE
    /\ connected' = FALSE
    /\ discCalls' = discCalls + 1
    /\ stpc' = [stpc EXCEPT ![s] = "health"]
    /\ UNCHANGED <<qvars, envvars, startvars, running, model, sinks, health,
                   callbacks, spawned, wvars, cntvars, logvars, stidx,
                   lastStop, initCalls, shutdownCalls, flushCalls, closeCalls,
                   healthStops, joinWarned, tdRaised>>

\* lines 326-332 and health.py 140-144: stop the health server if start()
\* created one, then return
StopHealth(s) ==
    /\ stpc[s] = "health"
    /\ health' = IF health = "started" THEN "stopped" ELSE health
    /\ healthStops' = IF health = "none" THEN healthStops ELSE healthStops + 1
    /\ stpc' = [stpc EXCEPT ![s] = "idle"]
    /\ lastStop' = [lastStop EXCEPT ![s] = "teardown"]
    /\ UNCHANGED <<qvars, envvars, startvars, running, model, sinks,
                   connected, connRunning, loopOn, callbacks, spawned, wvars,
                   cntvars, logvars, stidx, initCalls, shutdownCalls,
                   flushCalls, closeCalls, discCalls, joinWarned, tdRaised>>

StopStep(s) ==
    \/ StopCall(s)
    \/ StopClear(s)
    \/ StopJoin(s)
    \/ StopModel(s)
    \/ StopFlush(s)
    \/ StopClose(s)
    \/ StopDisconnect(s)
    \/ StopHealth(s)

\* a step of stop() in which no call into a component raises
StopReturning(s) ==
    /\ StopStep(s)
    /\ tdRaised' = tdRaised

\* TwinRuntime.__init__ for every configuration within the bounds
InitRT ==
    /\ policy \in Policies
    /\ maxsize \in 1..MaxCapRT
    /\ q = <<>>
    /\ dropped = 0
    /\ total_put = 0
    /\ pc = [p \in Putters |-> "idle"]
    /\ item = [p \in Putters |-> 0]
    /\ timeout = [p \in Putters |-> "none"]
    /\ ret = [p \in Putters |-> "none"]
    /\ cret = [c \in Consumers |-> [kind |-> "none", v |-> 0]]
    /\ putCalls = 0
    /\ seen = [p \in Putters |-> [q |-> <<>>, dropped |-> 0]]
    /\ alone = [p \in Putters |-> TRUE]
    /\ nworkers \in 1..MaxWorkers
    /\ nsinksCfg \in 0..MaxSinks
    /\ healthOn \in BOOLEAN
    /\ spc = "new"
    /\ sidx = 0
    /\ startFail = "none"
    /\ running = FALSE
    /\ model = "none"
    /\ sinks = <<>>
    /\ health = "none"
    /\ connected = FALSE
    /\ connRunning = FALSE
    /\ loopOn = FALSE
    /\ callbacks = {}
    /\ spawned = {}
    /\ wpc = [w \in Workers |-> "unstarted"]
    /\ wmsg = [w \in Workers |-> 0]
    /\ widx = [w \in Workers |-> 0]
    /\ messages_received = 0
    /\ messages_processed = 0
    /\ processing_errors = 0
    /\ bad = {}
    /\ dequeued = {}
    /\ processCalled = {}
    /\ procRaised = {}
    /\ written = [i \in 1..MaxSinks |-> {}]
    /\ writeFailed = {}
    /\ deqAfterRaise = {}
    /\ MQIdle
    /\ AuxIdle
    /\ stpc = [s \in Stoppers |-> "idle"]
    /\ stidx = [s \in Stoppers |-> 0]
    /\ lastStop = [s \in Stoppers |-> "none"]
    /\ initCalls = 0
    /\ shutdownCalls = 0
    /\ flushCalls = [i \in 1..MaxSinks |-> 0]
    /\ closeCalls = [i \in 1..MaxSinks |-> 0]
    /\ discCalls = 0
    /\ healthStops = 0
    /\ joinWarned = {}
    /\ tdRaised = {}

NextRT ==
    \/ StartStep
    \/ NetOnConnect
    \/ OnMessage
    \/ NetPut
    \/ \E w \in Workers : WorkerStep(w)
    \/ StopReturning(MainStopper)

SpecRT == InitRT /\ [][NextRT]_vars

\* The runtime's lifecycle: stop() called from two threads (the signal
\* handler of run_forever and a caller of stop()), the session to the broker
\* lost and re-established, one message in flight.
OnMessageLC ==
    /\ putCalls < MaxMsgsLC
    /\ OnMessage

NextLC ==
    \/ StartStep
    \/ NetOnConnect
    \/ NetOnDisconnect
    \/ OnMessageLC
    \/ NetPut
    \/ \E w \in Workers : WorkerStep(w)
    \/ \E s \in Stoppers : StopStep(s)

\* config.py lines 85-87: one worker and the default overflow policy
InitLC ==
    /\ InitRT
    /\ policy = "drop_oldest"
    /\ nworkers = 1

SpecLC == InitLC /\ [][NextLC]_vars

\* The worker pool being drained: one caller of stop(), up to MaxWorkers
\* workers, one message in flight. Every worker thread is scheduled again
\* and again, and the calls it makes into the transform and the sinks return.
InitDrain ==
    /\ InitRT
    /\ policy = "drop_oldest"

NextDrain ==
    \/ StartStep
    \/ NetOnConnect
    \/ OnMessageLC
    \/ NetPut
    \/ \E w \in Workers : WorkerStep(w)
    \/ StopStep(MainStopper)

SpecDrain ==
    /\ InitDrain
    /\ [][NextDrain]_vars
    /\ \A w \in Workers : WF_vars(WorkerStep(w))

\* One worker behind a queue of up to MaxCapOrd places that receives up to
\* MaxMsgsOrd messages: the order in which messages travel.
OnMessageOrd == OnMessageUpTo(MaxMsgsOrd)

NextOrder ==
    \/ StartStep
    \/ NetOnConnect
    \/ OnMessageOrd
    \/ NetPut
    \/ \E w \in Workers : WorkerStep(w)

\* config.py line 85: workers = 1; at least one configured sink
InitOrder ==
    /\ QInit
    /\ maxsize <= MaxCapOrd
    /\ nworkers = 1
    /\ nsinksCfg \in 0..MaxSinks
    /\ healthOn \in BOOLEAN
    /\ CompIdle
    /\ RunIdle
    /\ MQIdle
    /\ AuxIdle

SpecOrder == InitOrder /\ [][NextOrder]_vars

\* ================================================= MQTTConnector: SpecMQ
\* The connector by itself: connect(), the callbacks paho runs on the
\* network thread, a thread calling subscribe(), a thread calling
\* disconnect(), and a broker that forgets the subscriptions of a session
\* when the session ends (clean_session).
Topics == 1..NumTopics

\* min(a, b) of mqtt.py line 160
Min2(a, b) == IF a <= b THEN a ELSE b

\* self._client is not None: connect() has been called
ClientMade == connRunning \/ loopOn \/ dpc # "idle"

\* mqtt.py lines 59-90: a new client is created (nothing is pending on it),
\* connect and loop_start; the first connect(), or the one that follows a
\* disconnect()
MQConnect ==
    /\ ~connRunning
    /\ ~loopOn
    /\ sessions = 0 \/ dpc = "done"
    /\ sessions < MaxSessions
    /\ connRunning' = TRUE
    /\ loopOn' = TRUE
    /\ dpc' = "idle"
    /\ lost' = FALSE
    /\ UNCHANGED <<qvars, cfgvars, sidevars, session, sessions, brokerSubs, ocpc, subpc,
                   subTopic, delayvars, dispatched, raced, startvars, running,
                   model, sinks, health, connected, callbacks, spawned, wvars,
                   cntvars, logvars, stopvars>>

\* the broker accepts a connection: a clean session begins and paho queues
\* the on_connect callback
MQSessionUp ==
    /\ loopOn
    /\ ~session
    /\ ~lost
    /\ ocpc = "idle"
    /\ sessions < MaxSessions
    /\ session' = TRUE
    /\ sessions' = sessions + 1
    /\ brokerSubs' = {}
    /\ ocpc' = "set"
    /\ raced' = (raced \/ subpc # "idle")
    /\ UNCHANGED <<qvars, cfgvars, sidevars, lost, subpc, subTopic, delayvars, dpc,
                   dispatched, startvars, compvars, wvars, cntvars, logvars,
                   stopvars>>

\* the broker refuses the connection: _on_connect returns at line 122 and
\* the socket is closed, which paho reports by on_disconnect
MQConnRefused ==
    /\ loopOn
    /\ ~session
    /\ ~lost
    /\ ocpc = "idle"
    /\ fails < MaxFails
    /\ lost' = TRUE
    /\ UNCHANGED <<qvars, cfgvars, sidevars, session, sessions, brokerSubs, ocpc, subpc,
                   subTopic, delayvars, dcvars, startvars, compvars, wvars,
                   cntvars, logvars, stopvars>>

\* the transport breaks: the session and its subscriptions are gone
MQTransportLost ==
    /\ session
    /\ session' = FALSE
    /\ brokerSubs' = {}
    /\ lost' = TRUE
    /\ UNCHANGED <<qvars, cfgvars, sidevars, sessions, ocpc, subpc, subTopic, delayvars,
                   dcvars, startvars, compvars, wvars, cntvars, logvars,
                   stopvars>>

\* client.subscribe: the broker records the patterns if the session is up
NotIssued(subs, patterns) == subs

Issued(subs, patterns) == IF session THEN subs \cup patterns ELSE subs

\* _on_connect lines 125-127
MQOnConnectSet ==
    /\ loopOn
    /\ ocpc = "set"
    /\ connected' = TRUE
    /\ delay' = delayMin
    /\ fails' = 0
    /\ ocpc' = "resub"
    /\ UNCHANGED <<qvars, cfgvars, sidevars, session, sessions, brokerSubs, lost, subpc,
                   subTopic, delayMin, delayMax, dcvars, startvars, running,
                   model, sinks, health, connRunning, loopOn, callbacks,
                   spawned, wvars, cntvars, logvars, stopvars>>

\* _on_connect lines 129-133: under the lock, every registered pattern
MQOnConnectResub ==
    /\ loopOn
    /\ ocpc = "resub"
    /\ brokerSubs' = Issued(brokerSubs, callbacks)
    /\ ocpc' = "idle"
    /\ UNCHANGED <<qvars, cfgvars, sidevars, session, sessions, lost, subpc, subTopic,
                   delayvars, dcvars, startvars, compvars, wvars, cntvars,
                   logvars, stopvars>>

\* lines 160-163: the delay is doubled up to the configured maximum
Backoff(d) == Min2(d * 2, delayMax)

\* _on_disconnect lines 135-163, run by the network thread after the
\* callbacks queued before it; a lost transport and a refused connection
\* come with a failure reason code
MQOnDisconnect ==
    /\ loopOn
    /\ lost
    /\ ocpc = "idle"
    /\ connected' = FALSE
    /\ lost' = FALSE
    /\ IF connRunning
         THEN /\ delay' = Backoff(delay)
              /\ fails' = fails + 1
         ELSE UNCHANGED <<delay, fails>>
    /\ UNCHANGED <<qvars, cfgvars, sidevars, session, sessions, brokerSubs, ocpc, subpc,
                   subTopic, delayMin, delayMax, dcvars, startvars, running,
                   model, sinks, health, connRunning, loopOn, callbacks,
                   spawned, wvars, cntvars, logvars, stopvars>>

\* _on_message lines 165-183: a message on a pattern the broker holds for
\* this session is handed to the callback found for it
MQOnMessage ==
    /\ loopOn
    /\ session
    /\ ocpc = "idle"
    /\ brokerSubs # {}
    /\ dispatched < MaxDispatch
    /\ dispatched' = dispatched + 1
    /\ UNCHANGED <<qvars, cfgvars, sidevars, mqvars, delayvars, dpc, raced, startvars,
                   compvars, wvars, cntvars, logvars, stopvars>>

\* subscribe lines 233-234: the pattern is registered under the lock
MQSubscribeRegister(t) ==
    /\ subpc = "idle"
    /\ callbacks' = callbacks \cup {t}
    /\ subTopic' = t
    /\ subpc' = "check"
    /\ raced' = (ocpc # "idle")
    /\ UNCHANGED <<qvars, cfgvars, sidevars, session, sessions, brokerSubs, lost, ocpc,
                   delayvars, dpc, dispatched, startvars, running, model,
                   sinks, health, connected, connRunning, loopOn, spawned,
                   wvars, cntvars, logvars, stopvars>>

\* subscribe line 236: is there a client, and is the connected event set
ClientNeverConnected == FALSE

ClientConnected == ClientMade /\ connected

MQSubscribeCheck ==
    /\ subpc = "check"
    /\ subpc' = IF ClientConnected THEN "issue" ELSE "idle"
    /\ UNCHANGED <<qvars, cfgvars, sidevars, session, sessions, brokerSubs, lost, ocpc,
                   subTopic, delayvars, dcvars, startvars, compvars, wvars,
                   cntvars, logvars, stopvars>>

\* subscribe lines 237-238
MQSubscribeIssue ==
    /\ subpc = "issue"
    /\ brokerSubs' = Issued(brokerSubs, {subTopic})
    /\ subpc' = "idle"
    /\ UNCHANGED <<qvars, cfgvars, sidevars, session, sessions, lost, ocpc, subTopic,
                   delayvars, dcvars, startvars, compvars, wvars, cntvars,
                   logvars, stopvars>>

\* disconnect line 262
MQDisconnectCall ==
    /\ dpc = "idle"
    /\ connRunning
    /\ connRunning' = FALSE
    /\ dpc' = "loop_stop"
    /\ UNCHANGED <<qvars, cfgvars, sidevars, mqvars, delayvars, dispatched, raced,
                   startvars, running, model, sinks, health, connected,
                   loopOn, callbacks, spawned, wvars, cntvars, logvars,
                   stopvars>>

\* line 266: what is left of the network loop when loop_stop() has returned
LoopKeptRunning == loopOn

LoopAfterStop == FALSE

\* line 266: loop_stop() joins the network thread, which first finishes the
\* callback it is in
MQDisconnectLoopStop ==
    /\ dpc = "loop_stop"
    /\ ocpc = "idle"
    /\ loopOn' = LoopAfterStop
    /\ dpc' = "client_disc"
    /\ UNCHANGED <<qvars, cfgvars, sidevars, mqvars, delayvars, dispatched, raced,
                   startvars, running, model, sinks, health, connected,
                   connRunning, callbacks, spawned, wvars, cntvars, logvars,
                   stopvars>>

\* lines 267-271: client.disconnect() ends the session (an error of the
\* client is logged), and the connected event is cleared in any case
MQDisconnectClient ==
    /\ dpc = "client_disc"
    /\ session' = FALSE
    /\ brokerSubs' = {}
    /\ connected' = FALSE
    /\ dpc' = "done"
    /\ UNCHANGED <<qvars, cfgvars, sidevars, sessions, lost, ocpc, subpc, subTopic,
                   delayvars, dispatched, raced, startvars, running, model,
                   sinks, health, connRunning, loopOn, callbacks, spawned,
                   wvars, cntvars, logvars, stopvars>>

NextMQ ==
    \/ MQConnect
    \/ MQSessionUp
    \/ MQConnRefused
    \/ MQTransportLost
    \/ MQOnConnectSet
    \/ MQOnConnectResub
    \/ MQOnDisconnect
    \/ MQOnMessage
    \/ \E t \in Topics : MQSubscribeRegister(t)
    \/ MQSubscribeCheck
    \/ MQSubscribeIssue
    \/ MQDisconnectCall
    \/ MQDisconnectLoopStop
    \/ MQDisconnectClient

\* config.py lines 22-23: both delays are only required to be positive
DelayCfg ==
    /\ delayMin \in 1..MaxDelayMin
    /\ delayMax \in 1..MaxDelayMax
    /\ delay = delayMin
    /\ fails = 0

\* a connector just constructed; the queue and the runtime stay idle
InitMQ ==
    /\ QInit
    /\ policy = "drop_oldest"
    /\ maxsize = 1
    /\ RTCoreIdle
    /\ MQIdle
    /\ DelayCfg
    /\ DiscIdle
    /\ DispIdle
    /\ MatchIdle
    /\ AppIdle

SpecMQ == InitMQ /\ [][NextMQ]_vars

\* connect() lines 92-96: the wait of 10 seconds ends before any CONNACK
\* has set the connected event; the handler of line 99 clears _running and
\* the error is raised, with the network loop of line 90 left running
MQConnectTimeout ==
    /\ connRunning
    /\ loopOn
    /\ ~connected
    /\ sessions = 0
    /\ dpc = "idle"
    /\ connRunning' = FALSE
    /\ connectRaised' = "timeout"
    /\ UNCHANGED <<qvars, cfgvars, dispvars, matchvars, pmvars, metricvars,
                   recvars, got, lockvars, mqvars, delayvars, dcvars,
                   startvars, running, model, sinks, health, connected,
                   loopOn, callbacks, spawned, wvars, cntvars, logvars,
                   stopvars>>

\* connect() lines 83-87 and 99-106: client.connect raises (the transport
\* cannot be opened), before the network loop is started
MQConnectError ==
    /\ ~connRunning
    /\ ~loopOn
    /\ sessions = 0
    /\ dpc = "idle"
    /\ connectRaised' = "error"
    /\ UNCHANGED <<qvars, cfgvars, dispvars, matchvars, pmvars, metricvars,
                   recvars, got, lockvars, mqvars, delayvars, dcvars,
                   startvars, compvars, wvars, cntvars, logvars, stopvars>>

\* the connector with connect() calls that fail
NextMQFail ==
    \/ NextMQ
    \/ MQConnectTimeout
    \/ MQConnectError

SpecMQFail == InitMQ /\ [][NextMQFail]_vars

\* ============================================== topic matching: SpecMatch
\* _matches_topic (mqtt.py lines 206-220) on the segment lists obtained by
\* split("/"): a pattern of up to MaxPatLen segments against a topic of up to
\* MaxTopicLen segments.
TopicSegs == {"a", "b"}

PatternSegs == TopicSegs \cup {"+", "#"}

SeqsUpTo(S, n) == UNION {[1..k -> S] : k \in 1..n}

\* line 217: a pattern segment against the topic segment at the same index
SegmentEqual(pp, tp) == pp = tp

SegmentMatches(pp, tp) == pp = "+" \/ pp = tp

\* one pass of the loop of lines 212-218 at index i (from 1), or line 220
\* when the loop is exhausted: the value returned, or "next"
MatchAt(p, t, i) ==
    IF i > Len(p)
      THEN IF Len(p) = Len(t) THEN "true" ELSE "false"
      ELSE IF p[i] = "#" THEN "true"
      ELSE IF i > Len(t) THEN "false"
      ELSE IF ~SegmentMatches(p[i], t[i]) THEN "false"
      ELSE "next"

RECURSIVE MatchFrom(_, _, _)
MatchFrom(p, t, i) ==
    IF MatchAt(p, t, i) = "next"
      THEN MatchFrom(p, t, i + 1)
      ELSE MatchAt(p, t, i) = "true"

MatchesTopic(p, t) == MatchFrom(p, t, 1)

\* one iteration of the loop
MatchIter ==
    /\ mResult = "run"
    /\ MatchAt(mPattern, mTopic, midx) = "next"
    /\ midx' = midx + 1
    /\ UNCHANGED <<qvars, cfgvars, appvars, mqvars, delayvars, dcvars, dispvars,
                   mPattern, mTopic, mResult, startvars, compvars, wvars,
                   cntvars, logvars, stopvars>>

\* a return statement of lines 214, 216, 218 or 220
MatchReturn ==
    /\ mResult = "run"
    /\ MatchAt(mPattern, mTopic, midx) # "next"
    /\ mResult' = MatchAt(mPattern, mTopic, midx)
    /\ UNCHANGED <<qvars, cfgvars, appvars, mqvars, delayvars, dcvars, dispvars,
                   mPattern, mTopic, midx, startvars, compvars, wvars,
                   cntvars, logvars, stopvars>>

NextMatch ==
    \/ MatchIter
    \/ MatchReturn

\* no runtime around the connector: the queue and the runtime stay idle
RuntimeAbsent ==
    /\ QInit
    /\ policy = "drop_oldest"
    /\ maxsize = 1
    /\ RTCoreIdle

\* _matches_topic called with some pattern and some topic
InitMatch ==
    /\ RuntimeAbsent
    /\ MQIdle
    /\ DelayIdle
    /\ DiscIdle
    /\ DispIdle
    /\ AppIdle
    /\ mPattern \in SeqsUpTo(PatternSegs, MaxPatLen)
    /\ mTopic \in SeqsUpTo(TopicSegs, MaxTopicLen)
    /\ midx = 1
    /\ mResult = "run"

SpecMatch == InitMatch /\ [][NextMatch]_vars

\* ================================================= dispatch: SpecDispatch
\* subscribe() fills the table, _on_message looks the topic up in it.
\* Callbacks are told apart by a name; a pattern subscribed again keeps its
\* place in the dict and takes the new callback.
CallbackNames == {"f", "g"}

DispPatterns == SeqsUpTo(PatternSegs, MaxDispLen)

DispTopics == SeqsUpTo(TopicSegs, MaxDispLen)

\* `topic in self._callbacks` (line 196): the position of the key, or 0
ExactIndex(tbl, t) ==
    IF \E i \in 1..Len(tbl) : tbl[i].pat = t
      THEN CHOOSE i \in 1..Len(tbl) : tbl[i].pat = t
      ELSE 0

\* the loop of lines 200-202 returns at the first key that matches
LastMatch(tbl, t) ==
    LET M == {i \in 1..Len(tbl) : MatchesTopic(tbl[i].pat, t)}
    IN  IF M = {} THEN 0 ELSE CHOOSE i \in M : \A j \in M : j <= i

FirstMatch(tbl, t) ==
    LET M == {i \in 1..Len(tbl) : MatchesTopic(tbl[i].pat, t)}
    IN  IF M = {} THEN 0 ELSE CHOOSE i \in M : \A j \in M : i <= j

\* _find_callback, lines 192-204
FindCallback(tbl, t) ==
    IF ExactIndex(tbl, t) # 0 THEN tbl[ExactIndex(tbl, t)].cb
    ELSE IF FirstMatch(tbl, t) # 0 THEN tbl[FirstMatch(tbl, t)].cb
    ELSE "none"

\* subscribe line 234, `self._callbacks[topic_pattern] = callback`; the
\* record of the last message belongs to the table it was looked up in
DispSubscribe(p, c) ==
    /\ ExactIndex(table, p) # 0 \/ Len(table) < MaxTable
    /\ table' = IF ExactIndex(table, p) # 0
                  THEN [table EXCEPT ![ExactIndex(table, p)].cb = c]
                  ELSE Append(table, [pat |-> p, cb |-> c])
    /\ dTopic' = <<>>
    /\ invoked' = {}
    /\ UNCHANGED <<qvars, cfgvars, appvars, mqvars, delayvars, dcvars, matchvars,
                   startvars, compvars, wvars, cntvars, logvars, stopvars>>

\* _on_message lines 181-185 for a payload that parses
DispOnMessage(t) ==
    /\ dTopic' = t
    /\ invoked' = {FindCallback(table, t)} \ {"none"}
    /\ UNCHANGED <<qvars, cfgvars, appvars, mqvars, delayvars, dcvars, table,
                   matchvars, startvars, compvars, wvars, cntvars, logvars,
                   stopvars>>

NextDispatch ==
    \/ \E p \in DispPatterns, c \in CallbackNames : DispSubscribe(p, c)
    \/ \E t \in DispTopics : DispOnMessage(t)

InitDispatch ==
    /\ RuntimeAbsent
    /\ MQIdle
    /\ AuxIdle

SpecDispatch == InitDispatch /\ [][NextDispatch]_vars

\* ================================== parse_ingress_message: SpecParse
\* schemas.py lines 86-116 on what the fields of the payload hold. asset_id:
\* absent, a string, or a value that is not a string; timestamp: absent, an
\* ISO string, or a string that is no timestamp; value: absent, null, a
\* string that is no number, a numeric string, a number.
AssetKinds == {"absent", "str_m1", "int_5"}

TsKinds == {"absent", "iso", "bad"}

ValueKinds == {"absent", "null", "str_bad", "str_7", "num_7", "num_0"}

Payloads == [asset : AssetKinds, ts : TsKinds, value : ValueKinds]

\* float(x), also what pydantic makes of x for a float field
FloatOf(v) == IF v = "str_7" THEN "num_7" ELSE v

\* IngressMessage(**raw) validates (lines 11-43): a str asset_id, a timestamp
\* the before-validator can parse, a value pydantic takes for a float
StrictValid(raw) ==
    /\ raw.asset = "str_m1"
    /\ raw.ts = "iso"
    /\ raw.value \in {"str_7", "num_7", "num_0"}

Raised(kind) == [status |-> kind, asset |-> "none", ts |-> "none", value |-> "none"]

\* lines 110-115: the arguments are evaluated first (float() of a
\* non-numeric string raises ValueError, of None TypeError), then the
\* constructor validates asset_id again
LenientFallback(raw) ==
    IF raw.value = "str_bad" THEN Raised("ValueError")
    ELSE IF raw.value = "null" THEN Raised("TypeError")
    ELSE IF raw.asset = "int_5" THEN Raised("PydanticError")
    ELSE [status |-> "ok",
          asset |-> IF raw.asset = "absent" THEN "unknown" ELSE raw.asset,
          ts |-> "now",
          value |-> IF raw.value = "absent" THEN "num_0" ELSE FloatOf(raw.value)]

\* parse_ingress_message(raw, strict)
ParseIngress(raw, st) ==
    IF StrictValid(raw)
      THEN [status |-> "ok", asset |-> raw.asset, ts |-> raw.ts,
            value |-> FloatOf(raw.value)]
      ELSE IF st THEN Raised("ValidationError")
      ELSE LenientFallback(raw)

\* a call of parse_ingress_message
ParseCall ==
    /\ pmpc = "call"
    /\ envelope' = ParseIngress(payload, strict)
    /\ pmpc' = IF ParseIngress(payload, strict).status = "ok"
                 THEN "returned" ELSE "raised"
    /\ UNCHANGED <<qvars, cfgvars, mqvars, delayvars, dcvars, dispvars,
                   matchvars, metricvars, latevars, payload, strict, output, retKeys, record, pmIdx,
                   pmWritten, pmFailed, startvars, compvars, wvars, cntvars,
                   logvars, stopvars>>

NextParse == ParseCall

InitParse ==
    /\ RuntimeAbsent
    /\ MQIdle
    /\ DelayIdle
    /\ DiscIdle
    /\ DispIdle
    /\ MatchIdle
    /\ payload \in Payloads
    /\ strict \in BOOLEAN
    /\ envelope = NoEnvelope
    /\ pmpc = "call"
    /\ output = [k \in RequiredKeys |-> "none"]
    /\ retKeys = {}
    /\ record = NoRecord
    /\ pmIdx = 0
    /\ pmWritten = {}
    /\ pmFailed = {}
    /\ MetricsIdle
    /\ LateIdle

SpecParse == InitParse /\ [][NextParse]_vars

\* ====================================== _process_message: SpecPM
\* runner.py lines 223-265 for one message taken from the queue, in a runtime
\* that start() has brought up with MaxSinks sinks.
\* what the transform puts under a required key when it sets it
TransformValue(k) ==
    IF k = "raw_value" THEN "num_3"
    ELSE IF k = "twin_estimate" THEN "num_4"
    ELSE "true"

\* msg.get("value", 0.0), lines 245-246
DefaultZero(raw) == "num_0"

DefaultValue(raw) == IF raw.value = "absent" THEN "num_0" ELSE raw.value

\* lines 245-247: setdefault leaves a key that is present alone
FillDefaults(out, raw) ==
    [k \in RequiredKeys |->
        IF out[k] # "missing" THEN out[k]
        ELSE IF k = "anomaly_flag" THEN "false"
        ELSE DefaultValue(raw)]

\* _create_record, lines 267-290: the fields the required keys end up in
CreateRecord(env, out) ==
    [raw_value |-> out["raw_value"],
     twin_estimate |-> out["twin_estimate"],
     anomaly_flag |-> out["anomaly_flag"],
     timestamp |-> env.ts]

\* line 232
PMParse ==
    /\ pmpc = "parse"
    /\ envelope' = ParseIngress(payload, FALSE)
    /\ pmpc' = IF ParseIngress(payload, FALSE).status = "ok"
                 THEN "process" ELSE "except"
    /\ UNCHANGED <<qvars, cfgvars, mqvars, delayvars, dcvars, dispvars,
                   matchvars, metricvars, latevars, payload, strict, output, retKeys, record, pmIdx,
                   pmWritten, pmFailed, startvars, compvars, wvars, cntvars,
                   logvars, stopvars>>

\* lines 235-238: the transform returns a dict holding some of the required
\* keys, or raises
PMProcess ==
    /\ pmpc = "process"
    /\ \/ /\ model # "none"
          /\ \E K \in SUBSET RequiredKeys :
               /\ output' = [k \in RequiredKeys |->
                               IF k \in K THEN TransformValue(k) ELSE "missing"]
               /\ retKeys' = K
          /\ pmpc' = "validate"
       \/ /\ pmpc' = "except"
          /\ UNCHANGED <<output, retKeys>>
    /\ UNCHANGED <<qvars, cfgvars, mqvars, delayvars, dcvars, dispvars,
                   matchvars, metricvars, latevars, payload, strict, envelope, record, pmIdx,
                   pmWritten, pmFailed, startvars, compvars, wvars, cntvars,
                   logvars, stopvars>>

\* lines 241-247 with validate_model_output (loader.py lines 105-117)
PMValidate ==
    /\ pmpc = "validate"
    /\ output' = IF retKeys = RequiredKeys THEN output
                 ELSE FillDefaults(output, payload)
    /\ pmpc' = "record"
    /\ UNCHANGED <<qvars, cfgvars, mqvars, delayvars, dcvars, dispvars,
                   matchvars, metricvars, latevars, payload, strict, envelope, retKeys, record,
                   pmIdx, pmWritten, pmFailed, startvars, compvars, wvars,
                   cntvars, logvars, stopvars>>

\* line 250
PMRecord ==
    /\ pmpc = "record"
    /\ record' = CreateRecord(envelope, output)
    /\ pmIdx' = 1
    /\ pmpc' = IF Len(sinks) = 0 THEN "count" ELSE "write"
    /\ UNCHANGED <<qvars, cfgvars, mqvars, delayvars, dcvars, dispvars,
                   matchvars, metricvars, latevars, payload, strict, envelope, output, retKeys,
                   pmWritten, pmFailed, startvars, compvars, wvars, cntvars,
                   logvars, stopvars>>

\* lines 253-257: write(record) on the next sink; an error is logged
PMWrite ==
    /\ pmpc = "write"
    /\ \/ /\ pmWritten' = pmWritten \cup {pmIdx}
          /\ UNCHANGED pmFailed
       \/ /\ pmFailed' = pmFailed \cup {pmIdx}
          /\ UNCHANGED pmWritten
    /\ IF pmIdx < Len(sinks)
         THEN pmIdx' = pmIdx + 1 /\ pmpc' = "write"
         ELSE pmIdx' = pmIdx /\ pmpc' = "count"
    /\ UNCHANGED <<qvars, cfgvars, mqvars, delayvars, dcvars, dispvars,
                   matchvars, metricvars, latevars, payload, strict, envelope, output, retKeys,
                   record, startvars, compvars, wvars, cntvars, logvars,
                   stopvars>>

\* lines 259-260
PMCount ==
    /\ pmpc = "count"
    /\ messages_processed' = messages_processed + 1
    /\ pmpc' = "done"
    /\ UNCHANGED <<qvars, cfgvars, mqvars, delayvars, dcvars, dispvars,
                   matchvars, metricvars, latevars, payload, strict, envelope, output, retKeys,
                   record, pmIdx, pmWritten, pmFailed, startvars, compvars,
                   wvars, messages_received, processing_errors, logvars,
                   stopvars>>

\* lines 262-265
PMExcept ==
    /\ pmpc = "except"
    /\ processing_errors' = processing_errors + 1
    /\ pmpc' = "done"
    /\ UNCHANGED <<qvars, cfgvars, mqvars, delayvars, dcvars, dispvars,
                   matchvars, metricvars, latevars, payload, strict, envelope, output, retKeys,
                   record, pmIdx, pmWritten, pmFailed, startvars, compvars,
                   wvars, messages_received, messages_processed, logvars,
                   stopvars>>

NextPM ==
    \/ PMParse
    \/ PMProcess
    \/ PMValidate
    \/ PMRecord
    \/ PMWrite
    \/ PMCount
    \/ PMExcept

\* the components as start() leaves them: transform loaded, sinks open
CompStarted ==
    /\ running = TRUE
    /\ model = LoadedModel
    /\ sinks = [i \in 1..MaxSinks |-> "open"]
    /\ health = "none"
    /\ connected = TRUE
    /\ connRunning = TRUE
    /\ loopOn = TRUE
    /\ callbacks = {1}
    /\ spawned = {}

\* a worker has taken a message from the queue and calls _process_message
InitPM ==
    /\ QInit
    /\ policy = "drop_oldest"
    /\ maxsize = 1
    /\ nworkers = 1
    /\ nsinksCfg = MaxSinks
    /\ healthOn = FALSE
    /\ CompStarted
    /\ RunIdle
    /\ MQIdle
    /\ DelayIdle
    /\ DiscIdle
    /\ DispIdle
    /\ MatchIdle
    /\ payload \in Payloads
    /\ strict = FALSE
    /\ envelope = NoEnvelope
    /\ pmpc = "parse"
    /\ output = [k \in RequiredKeys |-> "none"]
    /\ retKeys = {}
    /\ record = NoRecord
    /\ pmIdx = 0
    /\ pmWritten = {}
    /\ pmFailed = {}
    /\ MetricsIdle
    /\ LateIdle

SpecPM == InitPM /\ [][NextPM]_vars

\* ========================================= GET /metrics: SpecMetrics
\* The health-server thread serving GET /metrics (health.py lines 66-72,
\* metrics.py lines 93-130) while other threads call the record_* methods
\* (lines 38-91). threading.Lock is not reentrant: an acquire waits until
\* the lock is free, whoever holds it.
LockFree == mlock = "free"

\* do_GET, health.py lines 36-37
HRequest ==
    /\ hpc = "idle"
    /\ hpc' = "get"
    /\ UNCHANGED <<qvars, cfgvars, mqvars, delayvars, dcvars, dispvars,
                   matchvars, pmvars, latevars, metrics, mlock, hstatus, snapshot, upc,
                   ukind, updates, startvars, compvars, wvars, cntvars,
                   logvars, stopvars>>

\* get_metrics(), metrics.py lines 151-162
HGetMetrics ==
    /\ hpc = "get"
    /\ hpc' = "to_dict"
    /\ UNCHANGED <<qvars, cfgvars, mqvars, delayvars, dcvars, dispvars,
                   matchvars, pmvars, latevars, metrics, mlock, hstatus, snapshot, upc,
                   ukind, updates, startvars, compvars, wvars, cntvars,
                   logvars, stopvars>>

\* to_dict line 113: `with self._lock`
HLock ==
    /\ hpc = "to_dict"
    /\ LockFree
    /\ mlock' = "handler"
    /\ hpc' = "fields"
    /\ UNCHANGED <<qvars, cfgvars, mqvars, delayvars, dcvars, dispvars,
                   matchvars, pmvars, latevars, metrics, hstatus, snapshot, upc, ukind,
                   updates, startvars, compvars, wvars, cntvars, logvars,
                   stopvars>>

\* to_dict lines 115-120: the counters are read
HFields ==
    /\ hpc = "fields"
    /\ snapshot' = metrics
    /\ hpc' = "uptime"
    /\ UNCHANGED <<qvars, cfgvars, mqvars, delayvars, dcvars, dispvars,
                   matchvars, pmvars, latevars, metrics, mlock, hstatus, upc, ukind,
                   updates, startvars, compvars, wvars, cntvars, logvars,
                   stopvars>>

\* to_dict line 121 calls get_uptime_seconds, whose line 95 acquires the
\* lock again; once it has the lock the rest of to_dict runs (lines 96,
\* 122-130), the outer lock is released and the response is sent with
\* status 200 (health.py line 70). Until then the thread waits.
HUptime ==
    /\ hpc = "uptime"
    /\ IF LockFree
         THEN /\ mlock' = "free"
              /\ hstatus' = 200
              /\ hpc' = "responded"
         ELSE UNCHANGED <<mlock, hstatus, hpc>>
    /\ UNCHANGED <<qvars, cfgvars, mqvars, delayvars, dcvars, dispvars,
                   matchvars, pmvars, latevars, metrics, snapshot, upc, ukind, updates,
                   startvars, compvars, wvars, cntvars, logvars, stopvars>>

HandlerStep ==
    \/ HRequest
    \/ HGetMetrics
    \/ HLock
    \/ HFields
    \/ HUptime

\* a record_* or increment call takes the lock (lines 46, 63, 69, 74, 84)
ULock(u, c) ==
    /\ upc[u] = "idle"
    /\ updates < MaxUpdates
    /\ LockFree
    /\ mlock' = u
    /\ upc' = [upc EXCEPT ![u] = "held"]
    /\ ukind' = [ukind EXCEPT ![u] = c]
    /\ updates' = updates + 1
    /\ UNCHANGED <<qvars, cfgvars, mqvars, delayvars, dcvars, dispvars,
                   matchvars, pmvars, latevars, metrics, hpc, hstatus, snapshot,
                   startvars, compvars, wvars, cntvars, logvars, stopvars>>

\* the counter is incremented and the lock released
UUpdate(u) ==
    /\ upc[u] = "held"
    /\ metrics' = [metrics EXCEPT ![ukind[u]] = @ + 1]
    /\ mlock' = "free"
    /\ upc' = [upc EXCEPT ![u] = "idle"]
    /\ UNCHANGED <<qvars, cfgvars, mqvars, delayvars, dcvars, dispvars,
                   matchvars, pmvars, latevars, hpc, hstatus, snapshot, ukind, updates,
                   startvars, compvars, wvars, cntvars, logvars, stopvars>>

UpdaterStep(u) ==
    \/ \E c \in CounterNames : ULock(u, c)
    \/ UUpdate(u)

NextMetrics ==
    \/ HRequest
    \/ HGetMetrics
    \/ HLock
    \/ HFields
    \/ HUptime
    \/ \E u \in Updaters, c \in CounterNames : ULock(u, c)
    \/ \E u \in Updaters : UUpdate(u)

\* a health server and a metrics object by themselves
InitMetrics ==
    /\ RuntimeAbsent
    /\ MQIdle
    /\ DelayIdle
    /\ DiscIdle
    /\ DispIdle
    /\ MatchIdle
    /\ PMIdle
    /\ MetricsIdle
    /\ LateIdle

\* every thread that can take a step is scheduled in the end
SpecMetrics ==
    /\ InitMetrics
    /\ [][NextMetrics]_vars
    /\ WF_vars(HandlerStep)
    /\ \A u \in Updaters : WF_vars(UpdaterStep(u))

\* ============================================ _create_record: SpecRecord
\* runner.py lines 238-255 and 267-289: what one worker does with the dict
\* model.process returned, for a message that parsed, in a runtime that
\* start() has brought up with MaxSinks sinks.  A dict is a function from
\* the keys it holds to their values.
recenv == <<qvars, cfgvars, mqvars, delayvars, dcvars, dispvars, matchvars,
            pmvars, metricvars, got, lockvars, connectRaised, startvars, compvars, wvars, cntvars,
            logvars, stopvars>>

\* config.runtime.asset_id, config.runtime.twin_id, config.model.version
CfgAsset == "cfg_asset"

CfgTwin == "cfg_twin"

CfgVersion == "cfg_version"

\* ingress.timestamp.isoformat() and utc_now().isoformat()
MsgTime == "t_msg"

NowTime == "t_now"

\* the alpha parameter of the test configuration, as a fraction
AlphaNum == 1

AlphaDen == 2

InputValues == {4, 10}

\* mock_model.py line 27
Scale(v) == (v * AlphaNum) \div AlphaDen

\* mock_model.py lines 26-34
MockProcess(v) ==
    [raw_value |-> v, twin_estimate |-> Scale(v), anomaly_flag |-> FALSE,
     residual |-> v - Scale(v)]

\* runner.py line 288: the keys _create_record reads one by one
StandardKeys ==
    {"raw_value", "twin_estimate", "anomaly_flag", "residual", "confidence"}

\* the keys _create_record sets from the configuration and the clocks
RuntimeKeys ==
    {"asset_id", "twin_id", "model_version", "timestamp", "processed_at"}

OutKeys == StandardKeys \cup RuntimeKeys \cup {"state"}

\* what a transform may put under a key: the mock model's value where the
\* mock model has one, either anomaly flag, and a value of its own elsewhere
ModelValue(k, v, a) ==
    IF k = "anomaly_flag" THEN a
    ELSE IF k \in DOMAIN MockProcess(v) THEN MockProcess(v)[k]
    ELSE IF k = "confidence" THEN 1
    ELSE "model_" \o k

\* the dicts a ModelBlock.process may return for a message of value v
ModelOutputs(v) ==
    {[k \in K |-> ModelValue(k, v, a)] : K \in SUBSET OutKeys, a \in BOOLEAN}

\* dict.get(k, default)
DictGet(d, k, default) == IF k \in DOMAIN d THEN d[k] ELSE default

\* dict.setdefault(k, v)
SetDefault(d, k, v) ==
    IF k \in DOMAIN d THEN d
    ELSE [x \in DOMAIN d \cup {k} |-> IF x = k THEN v ELSE d[x]]

\* runner.py lines 241-247
ValidateFill(d, v) ==
    IF RequiredKeys \subseteq DOMAIN d THEN d
    ELSE SetDefault(SetDefault(SetDefault(d, "raw_value", v),
                               "twin_estimate", v), "anomaly_flag", FALSE)

\* runner.py lines 274-283: the entries written out in the dict display
BaseRecord(d) ==
    [asset_id |-> CfgAsset, twin_id |-> CfgTwin,
     model_version |-> CfgVersion, timestamp |-> MsgTime,
     processed_at |-> NowTime,
     raw_value |-> DictGet(d, "raw_value", None),
     twin_estimate |-> DictGet(d, "twin_estimate", None),
     anomaly_flag |-> DictGet(d, "anomaly_flag", FALSE),
     residual |-> DictGet(d, "residual", None),
     confidence |-> DictGet(d, "confidence", None)]

\* runner.py lines 284-288: the entries the ** unpacking adds
Spread(d) == [k \in DOMAIN d \ StandardKeys |-> d[k]]

\* a dict display that kept the entry written first
MergeKeepFirst(a, b) ==
    [k \in DOMAIN a \cup DOMAIN b |-> IF k \in DOMAIN a THEN a[k] ELSE b[k]]

\* a dict display {.., **b}: for a key given twice the last entry stays
Merge(a, b) ==
    [k \in DOMAIN a \cup DOMAIN b |-> IF k \in DOMAIN b THEN b[k] ELSE a[k]]

\* runner.py lines 267-289
BuildRecord(d) == Merge(BaseRecord(d), Spread(d))

\* line 238: model_output = self._model.process(msg)
RecProcess ==
    /\ rpc = "call"
    /\ \E d \in ModelOutputs(rValue) : rOut' = d
    /\ rpc' = "validate"
    /\ UNCHANGED <<recenv, rValue, rRecord, rIdx, rGiven>>

\* lines 241-247
RecValidate ==
    /\ rpc = "validate"
    /\ rOut' = ValidateFill(rOut, rValue)
    /\ rpc' = "record"
    /\ UNCHANGED <<recenv, rValue, rRecord, rIdx, rGiven>>

\* line 250
RecCreate ==
    /\ rpc = "record"
    /\ rRecord' = BuildRecord(rOut)
    /\ rIdx' = 1
    /\ rpc' = "write"
    /\ UNCHANGED <<recenv, rValue, rOut, rGiven>>

\* lines 253-257: write(record) is called on the next sink, and whether it
\* returns or raises the loop goes on
RecWrite ==
    /\ rpc = "write"
    /\ rGiven' = [rGiven EXCEPT ![rIdx] = rRecord]
    /\ IF rIdx < MaxSinks
       THEN rIdx' = rIdx + 1 /\ rpc' = rpc
       ELSE rIdx' = rIdx /\ rpc' = "done"
    /\ UNCHANGED <<recenv, rValue, rOut, rRecord>>

NextRecord ==
    \/ RecProcess
    \/ RecValidate
    \/ RecCreate
    \/ RecWrite

\* a worker holds a parsed message and is about to call process()
InitRecord ==
    /\ QInit
    /\ policy = "drop_oldest"
    /\ maxsize = 1
    /\ nworkers = 1
    /\ nsinksCfg = MaxSinks
    /\ healthOn = FALSE
    /\ CompStarted
    /\ RunIdle
    /\ MQIdle
    /\ DelayIdle
    /\ DiscIdle
    /\ DispIdle
    /\ MatchIdle
    /\ PMIdle
    /\ MetricsIdle
    /\ got = << >>
    /\ LockIdle
    /\ connectRaised = "none"
    /\ rValue \in InputValues
    /\ rOut = NoDict
    /\ rRecord = NoDict
    /\ rpc = "call"
    /\ rIdx = 0
    /\ rGiven = [i \in 1..MaxSinks |-> NoDict]

SpecRecord == InitRecord /\ [][NextRecord]_vars

\* ======================================= the runtime's counters: SpecCount
\* The workers of a started runtime counting their messages.  The
\* increments of lines 259-260 and 263-264 are taken apart into acquiring
\* TwinRuntime._lock, reading the counter, storing the sum and releasing
\* the lock, so that two workers can interleave wherever the lock lets them.
cntenv == <<qvars, cfgvars, mqvars, delayvars, dcvars, dispvars, matchvars,
            pmvars, metricvars, recvars, got, connectRaised, startvars, compvars,
            wmsg, widx,
            messages_received, logvars, stopvars>>

\* a runtime whose threads did not take the lock
StatsLockIgnored == TRUE

\* threading.Lock.acquire goes through when no thread holds the lock
StatsLockFree == rlock = "free"

\* lines 259 and 263: with self._lock
CntAcquire(w) ==
    /\ wpc[w] \in {"count", "err"}
    /\ StatsLockFree
    /\ rlock' = "held"
    /\ wpc' = [wpc EXCEPT ![w] = IF wpc[w] = "count" THEN "count_read"
                                                      ELSE "err_read"]
    /\ UNCHANGED <<cntenv, messages_processed, processing_errors, creg>>

\* lines 260 and 264: the += reads the counter
CntRead(w) ==
    /\ wpc[w] \in {"count_read", "err_read"}
    /\ creg' = [creg EXCEPT ![w] = IF wpc[w] = "count_read"
                                     THEN messages_processed
                                     ELSE processing_errors]
    /\ wpc' = [wpc EXCEPT ![w] = IF wpc[w] = "count_read" THEN "count_write"
                                                           ELSE "err_write"]
    /\ UNCHANGED <<cntenv, messages_processed, processing_errors, rlock>>

\* lines 260 and 264: the += stores the value read plus one
CntWrite(w) ==
    /\ wpc[w] \in {"count_write", "err_write"}
    /\ IF wpc[w] = "count_write"
         THEN /\ messages_processed' = creg[w] + 1
              /\ UNCHANGED processing_errors
         ELSE /\ processing_errors' = creg[w] + 1
              /\ UNCHANGED messages_processed
    /\ wpc' = [wpc EXCEPT ![w] = "unlock"]
    /\ UNCHANGED <<cntenv, rlock, creg>>

\* the with block is left, then task_done (line 216)
CntRelease(w) ==
    /\ wpc[w] = "unlock"
    /\ rlock' = "free"
    /\ wpc' = [wpc EXCEPT ![w] = "loop"]
    /\ UNCHANGED <<cntenv, messages_processed, processing_errors, creg>>

\* lines 188-189: the ingestion callback counts under the same lock
OnMessageCnt ==
    /\ StatsLockFree
    /\ OnMessage

\* the worker loop up to the counting
WorkStep(w) ==
    \/ WLoop(w)
    \/ WGet(w)
    \/ WGetTimeout(w)
    \/ WParse(w)
    \/ WProcess(w)
    \/ WWrite(w)

CountStep(w) ==
    \/ CntAcquire(w)
    \/ CntRead(w)
    \/ CntWrite(w)
    \/ CntRelease(w)

NextCount ==
    \/ StartStep
    \/ NetOnConnect
    \/ OnMessageCnt
    \/ NetPut
    \/ \E w \in Workers : WorkStep(w)
    \/ \E w \in Workers : CountStep(w)

InitCount ==
    /\ QInit
    /\ maxsize <= MaxCapOrd
    /\ nworkers \in 1..MaxWorkers
    /\ nsinksCfg \in 0..1
    /\ healthOn \in BOOLEAN
    /\ CompIdle
    /\ RunIdle
    /\ MQIdle
    /\ AuxIdle

SpecCount == InitCount /\ [][NextCount]_vars

\* ================================= the queue's accounting: SpecConserve
\* The queue alone under the two drop policies, with a log of the items
\* get() has returned.
GetLogged(c) ==
    /\ Get(c)
    /\ got' = Append(got, Head(q))
    /\ UNCHANGED <<cfgvars, mqvars, delayvars, dcvars, dispvars, matchvars,
                   pmvars, metricvars, recvars, lockvars, connectRaised, startvars,
                   compvars,
                   wvars, cntvars, logvars, stopvars>>

NextConserve ==
    \/ /\ \/ \E p \in Producers : PutCall(p)
          \/ \E p \in Producers : PutStep(p)
          \/ \E c \in Consumers : GetEmpty(c)
       /\ UNCHANGED rtvars
    \/ \E c \in Consumers : GetLogged(c)

InitConserve ==
    /\ Init
    /\ policy \in {"drop_oldest", "drop_newest"}

SpecConserve == InitConserve /\ [][NextConserve]_vars

\* ======================================================= queue properties
Returned == {"true", "false", "raise_Full", "raise_QueueOverflowError"}

\* C1: for every capacity c >= 1 and every policy, 0 <= size <= c in every
\* reachable state, under any interleaving of puts and gets.
C1_SizeWithinCapacity == Len(q) >= 0 /\ Len(q) <= maxsize

\* a full queue on which an overflowing put has already dropped something
\* and from which a consumer has already taken an item
C1_Witness ==
    /\ Len(q) = maxsize
    /\ dropped > 0
    /\ \E c \in Consumers : cret[c].kind = "item"
    /\ \E p \in Producers : pc[p] \in {"do_put", "retry_put", "blk_put"}

\* C2: under drop_oldest, a put that finds the queue full and is not
\* interleaved with any other thread removes exactly the oldest item, appends
\* its own item at the tail, raises dropped by exactly one and returns true.
C2_DropOldestSequential ==
    [][\A p \in Producers :
         (policy = "drop_oldest" /\ alone[p]) =>
            /\ (pc[p] = "do_get" /\ pc'[p] # pc[p]) =>
                  (pc'[p] = "do_inc" /\ q' = Tail(seen[p].q))
            /\ (pc[p] = "do_put" /\ pc'[p] # pc[p]) =>
                  /\ pc'[p] = "idle"
                  /\ ret'[p] = "true"
                  /\ q' = Append(Tail(seen[p].q), item[p])
                  /\ Len(q') = maxsize
                  /\ dropped' = seen[p].dropped + 1]_vars

\* capacity 3, puts 1,2,3,4 by one undisturbed producer: contents 2,3,4
C2_Witness ==
    /\ policy = "drop_oldest"
    /\ maxsize = 3
    /\ q = <<2, 3, 4>>
    /\ dropped = 1
    /\ \E p \in Producers :
         /\ pc[p] = "idle" /\ ret[p] = "true" /\ item[p] = 4
         /\ alone[p] /\ seen[p].q = <<1, 2, 3>>

\* C3: under drop_newest, a put whose put_nowait finds the queue full goes
\* straight to the discard branch, which raises dropped by exactly one,
\* returns false and leaves the queue contents untouched.
C3_DropNewest ==
    [][\A p \in Producers :
         policy = "drop_newest" =>
            /\ (pc[p] = "try" /\ Len(q) = maxsize /\ pc'[p] # pc[p]) =>
                  (pc'[p] = "dn_inc" /\ q' = q /\ dropped' = dropped)
            /\ (pc[p] = "dn_inc" /\ pc'[p] # pc[p]) =>
                  /\ pc'[p] = "idle"
                  /\ ret'[p] = "false"
                  /\ q' = q
                  /\ dropped' = dropped + 1
            /\ pc'[p] \in {"idle", "inc", "try", "dn_inc"}]_vars

C3_Witness ==
    /\ policy = "drop_newest"
    /\ Len(q) = maxsize
    /\ dropped = 1
    /\ \E p \in Producers :
         /\ pc[p] = "idle" /\ ret[p] = "false"
         /\ alone[p] /\ seen[p].q = q

\* C4: under block, a put with a timeout never returns false: from the wait
\* it either admits its item when there is room, or raises the queue-overflow
\* error while the queue is full, leaving contents and dropped unchanged.
C4_BlockTimeout ==
    [][\A p \in Producers :
         policy = "block" =>
            /\ ret'[p] # "false"
            /\ pc'[p] \in {"idle", "inc", "try", "blk_put"}
            /\ (pc[p] = "blk_put" /\ pc'[p] # pc[p]) =>
                  /\ pc'[p] = "idle"
                  /\ \/ /\ ret'[p] = "true"
                        /\ Len(q) < maxsize
                        /\ q' = Append(q, item[p])
                        /\ dropped' = dropped
                     \/ /\ ret'[p] = "raise_QueueOverflowError"
                        /\ timeout[p] = "finite"
                        /\ Len(q) = maxsize
                        /\ q' = q
                        /\ dropped' = dropped]_vars

\* one blocked put timed out on a full queue, another was admitted after a get
C4_Witness ==
    /\ policy = "block"
    /\ dropped = 0
    /\ \E p1, p2 \in Producers :
         /\ ret[p1] = "raise_QueueOverflowError" /\ pc[p1] = "idle"
         /\ ret[p2] = "true" /\ pc[p2] = "idle"
         /\ seen[p2].q # <<>> /\ item[p2] \in {q[i] : i \in 1..Len(q)}
         /\ Head(seen[p2].q) \notin {q[i] : i \in 1..Len(q)}

\* C5: under drop_oldest with concurrent producers, every put returns a
\* boolean: no queue.Full or queue.Empty escapes put.
C5_PutNeverRaises ==
    policy = "drop_oldest" =>
        \A p \in Producers : ret[p] \in {"none", "pending", "true", "false"}

\* C6: under drop_oldest, put removes (and counts as dropped) an item only
\* while the queue is full at the moment of the removal.
C6_DropOnlyWhenFull ==
    [][\A p \in Producers :
         (pc[p] = "do_get" /\ pc'[p] = "do_inc") => Len(q) = maxsize]_vars

\* C7: whenever no put is between its entry and its counter update,
\* total_put equals the number of put calls issued, whatever their outcome.
C7_TotalPutCountsCalls ==
    (\A p \in Producers : pc[p] # "inc") => total_put = putCalls

\* calls that were refused or failed are counted as well
C7_Witness ==
    /\ \A p \in Producers : pc[p] = "idle"
    /\ total_put = putCalls
    /\ putCalls >= 3
    /\ \E p \in Producers :
         ret[p] \in {"false", "raise_QueueOverflowError", "raise_Full"}

\* ===================================================== runtime properties
\* C8: a process() that raises does not stop the worker loop: the failure
\* adds exactly 1 to processing_errors, leaves messages_processed alone,
\* the worker returns to its loop, and every message dequeued afterwards is
\* passed to process().
C8_ProcessFailureIsolated ==
    [][\A w \in Workers :
         /\ (wpc[w] = "process" /\ wmsg[w] \in procRaised') =>
               wpc'[w] = "err"
         /\ (wpc[w] = "err" /\ wmsg[w] \in procRaised /\ wpc'[w] # "err") =>
               /\ processing_errors' = processing_errors + 1
               /\ messages_processed' = messages_processed
               /\ wpc'[w] = "loop"
         /\ (wpc[w] = "parse" /\ wmsg[w] \in deqAfterRaise /\ wpc'[w] # "parse") =>
               wpc'[w] = "process"]_vars

\* C9: the record of a processed message is offered to every sink in list
\* order; a write() that raises is caught, the later sinks are still
\* written, and the worker goes on to count the message and to the next one.
C9_FanOutIsolated ==
    [][\A w \in Workers :
         /\ (wpc[w] = "process" /\ wpc'[w] = "write") => widx'[w] = 1
         /\ (wpc[w] = "write" /\ wpc'[w] # "write") =>
               (wpc'[w] = "count" /\ widx[w] = Len(sinks))
         /\ (wpc[w] = "write" /\ (wpc'[w] # "write" \/ widx'[w] # widx[w])) =>
               /\ wmsg[w] \in written'[widx[w]]
               /\ \A j \in 1..(widx[w] - 1) : wmsg[w] \in written[j]
               /\ wpc'[w] = "write" => widx'[w] = widx[w] + 1
         /\ (wpc[w] = "count" /\ wpc'[w] # "count") =>
               /\ \A i \in 1..Len(sinks) : wmsg[w] \in written[i]
               /\ wpc'[w] = "loop"]_vars

\* the first sink failed on a record, the second still received it, and the
\* same worker then delivered the next message to both
C9_Witness ==
    /\ nworkers = 1
    /\ Len(sinks) = 2
    /\ \E m, n \in 1..MaxMsgs :
         /\ m < n
         /\ <<1, m>> \in writeFailed
         /\ m \in written[2]
         /\ n \in written[1] /\ n \in written[2]
         /\ messages_processed = 2

C11_AbortedStartTornDown ==
    spc = "raised" =>
        /\ \A i \in 1..Len(sinks) : sinks[i] # "open"
        /\ model # "ready"
        /\ ~connected
        /\ ~loopOn
        /\ \A w \in Workers : wpc[w] \in {"unstarted", "exited"}

\* ---------------------------------------------------- lifecycle properties
\* the runtime was never started, or a stop() has torn it down
NeverStarted == spc = "new"

Stopped == \E t \in Stoppers : lastStop[t] = "teardown"

\* thread s enters stop() in this step
EntersStop(s) ==
    /\ stpc[s] = "idle"
    /\ lastStop[s] = "none"
    /\ stpc'[s] # "idle" \/ lastStop'[s] # "none"

\* C12: a stop() call on a runtime that is already stopped or was never
\* started returns at once: it makes no teardown call, raises nothing and
\* changes neither the running flag, nor a counter, nor a component.
C12_StopIdempotent ==
    [][\A s \in Stoppers :
         (EntersStop(s) /\ (NeverStarted \/ Stopped)) =>
             /\ lastStop'[s] = "noop"
             /\ UNCHANGED <<qvars, envvars, startvars, compvars, wvars,
                            cntvars, logvars, stpc, stidx, callvars>>]_vars

\* one thread has torn the runtime down and the stop() of the other one was
\* a no-op: every teardown call was made once
C12_Witness ==
    /\ lastStop["s1"] = "teardown"
    /\ lastStop["s2"] = "noop"
    /\ shutdownCalls = 1
    /\ discCalls = 1
    /\ \A i \in 1..Len(sinks) : flushCalls[i] = 1

\* C13: after a successful start(), whatever the number and interleaving of
\* stop() calls, shutdown() of the transform is invoked at most once, and
\* exactly once when a stop() has torn the runtime down.
C13_ShutdownExactlyOnce ==
    spc = "done" =>
        /\ shutdownCalls <= 1
        /\ Stopped => shutdownCalls = 1

\* C14: when a stop() that tore the runtime down returns, every worker has
\* left its loop or was logged as exceeding the join timeout; and with the
\* workers scheduled and their process() and write() calls returning, every
\* worker terminates once the running flag has been cleared.
C14_WorkersJoinedOrWarned ==
    /\ [](Stopped =>
            \A w \in spawned : wpc[w] = "exited" \/ w \in joinWarned)
    /\ ((spc = "done" /\ ~running) ~>
            (\A w \in spawned : wpc[w] = "exited"))

\* stop() has returned: one worker had left its loop when it was joined, the
\* other one was still busy with a message and was logged
C14_Witness ==
    /\ Stopped
    /\ Cardinality(spawned) = 2
    /\ Cardinality(joinWarned) = 1
    /\ \E w \in spawned : w \notin joinWarned /\ wpc[w] = "exited"
    /\ \E w \in joinWarned : wpc[w] # "exited"

\* C15: no stop() ends by raising, and when a stop() has returned from the
\* teardown, then, whichever of the shutdown(), flush(), close() and join
\* steps failed, flush() was called on every sink, close() on every sink
\* whose flush() returned, the connector was disconnected and the health
\* surface stopped.
C15_TeardownAttemptsEveryStep ==
    /\ \A s \in Stoppers : lastStop[s] # "raised"
    /\ Stopped =>
          /\ shutdownCalls >= 1
          /\ \A i \in 1..Len(sinks) :
               /\ flushCalls[i] >= 1
               /\ closeCalls[i] >= 1 \/ <<"flush", i>> \in tdRaised
          /\ discCalls >= 1
          /\ ~loopOn /\ ~connected
          /\ health # "started"
          /\ health = "stopped" => healthStops >= 1

\* stop() has returned although the worker outlived its join, shutdown()
\* raised, the flush() of the first sink and the close() of the second one
\* raised
C15_Witness ==
    /\ lastStop["s1"] = "teardown"
    /\ lastStop["s2"] = "none"
    /\ joinWarned # {}
    /\ {<<"shutdown", 0>>, <<"flush", 1>>, <<"close", 2>>} \subseteq tdRaised
    /\ flushCalls[2] = 1
    /\ closeCalls[2] = 1
    /\ discCalls = 1
    /\ health = "stopped"

\* C16: init() of the transform is called at most once, exactly once in a
\* runtime whose start() succeeded, and it has returned (the transform is
\* stored in the runtime) before a worker exists and so before any
\* process() call; a failed load leaves no sink opened, no worker spawned
\* and the running flag clear.
C16_InitOnceBeforeProcess ==
    /\ initCalls <= 1
    /\ spc = "done" => initCalls = 1
    /\ (spawned # {} \/ processCalled # {}) =>
          /\ initCalls = 1
          /\ model # "none"
    /\ startFail = "model" =>
          /\ sinks = <<>>
          /\ spawned = {}
          /\ ~running

\* a worker has passed a message to process() of the transform that was
\* initialized once
C16_Witness ==
    /\ spc = "done"
    /\ processCalled # {}
    /\ initCalls = 1
    /\ model = LoadedModel

\* C17: once start() has succeeded the sink list holds at least one sink,
\* the default one when none is configured, and a sink that a worker has
\* written to is a sink of the list, which holds opened sinks only.
C17_SinksOpenedBeforeWrite ==
    /\ spc = "done" => Len(sinks) >= 1
    /\ spc = "done" /\ nsinksCfg = 0 => Len(sinks) = Len(DefaultSinks)
    /\ spawned # {} => \A i \in 1..Len(sinks) : sinks[i] \in {"open", "closed"}
    /\ \A i \in 1..MaxSinks :
         written[i] # {} => i \in 1..Len(sinks) /\ spc \in {"spawn", "done"}

\* no sink is configured and a worker has written a record to the default
\* sink
C17_Witness ==
    /\ spc = "done"
    /\ nsinksCfg = 0
    /\ Len(sinks) = 1
    /\ written[1] # {}

\* the sink loop of the stop() executed by thread s is over
SinkLoopDone(s) == stpc[s] \in {"disc", "health"} \/ lastStop[s] = "teardown"

\* C18: in stop() the close() of a sink is called only after the flush() of
\* that sink, and when the sink loop is over flush() was called on every
\* sink and close() on every sink whose own flush() returned, whatever the
\* flush() or close() of another sink raised.
C18_FlushBeforeCloseIsolated ==
    /\ \A i \in 1..MaxSinks : closeCalls[i] <= flushCalls[i]
    /\ \A s \in Stoppers :
         stpc[s] = "close" => flushCalls[stidx[s]] > closeCalls[stidx[s]]
    /\ \A s \in Stoppers :
         SinkLoopDone(s) =>
             \A j \in 1..Len(sinks) :
                 /\ flushCalls[j] >= 1
                 /\ <<"flush", j>> \notin tdRaised => closeCalls[j] >= 1

\* the flush() of the first sink raised, so that its close() was skipped,
\* and the second sink was flushed and closed all the same
C18_Witness ==
    /\ SinkLoopDone("s1")
    /\ lastStop["s2"] = "none" /\ stpc["s2"] = "idle"
    /\ Len(sinks) = 2
    /\ tdRaised = {<<"flush", 1>>}
    /\ closeCalls[1] = 0
    /\ flushCalls[2] = 1
    /\ closeCalls[2] = 1
    /\ sinks[2] = "closed"

\* ------------------------------------------------------- health predicates
\* runner.py line 99: self._connector has been assigned
ConnectorCreated ==
    \/ spc \in {"connwait", "subscribe", "health", "set_running", "spawn",
                "done"}
    \/ spc = "raised" /\ startFail \in {"connect", "subscribe"}

\* _readiness_check, lines 168-176
ReadinessNoConnector ==
    /\ running
    /\ model # "none"
    /\ Len(sinks) > 0

Readiness ==
    /\ running
    /\ ConnectorCreated
    /\ connected
    /\ model # "none"
    /\ Len(sinks) > 0

\* _liveness_check, lines 178-180
Liveness == running

\* the stop() executed by thread s is past line 297
StopCleared(s) ==
    \/ stpc[s] \in {"join", "model", "flush", "close", "disc", "health"}
    \/ lastStop[s] = "teardown"

SessionSettled ==
    /\ session
    /\ ~lost
    /\ ocpc = "idle"
    /\ subpc = "idle"

\* C20: whenever a session is established and its on_connect callback has
\* finished, with no subscribe() call half-way, the patterns the broker
\* holds for the session are exactly the registered patterns, after any
\* order of subscribe, transport loss and reconnect.
C20_ResubscribedEverySession ==
    SessionSettled => (connected /\ brokerSubs = callbacks)

\* a later session, entered after a transport loss, holds both patterns
C20_Witness ==
    /\ SessionSettled
    /\ sessions >= 2
    /\ callbacks = Topics
    /\ brokerSubs = Topics

\* the subscribe() call and the on_connect handler have both finished and the
\* connector is connected to a live session
SubscribeSettled ==
    /\ subTopic \in Topics
    /\ subpc = "idle"
    /\ ocpc = "idle"
    /\ connected
    /\ session
    /\ ~lost

\* C21: a subscribe() call that overlaps the on_connect handler is not lost:
\* once both have finished and the connector is connected, the pattern is in
\* the subscription table and has been issued to the broker for the current
\* session.
C21_RacingSubscribeNotLost ==
    SubscribeSettled => subTopic \in callbacks /\ subTopic \in brokerSubs

C21_Witness ==
    /\ SubscribeSettled
    /\ raced
    /\ subTopic \in brokerSubs
    /\ sessions >= 2

\* C22: in every connector state the reconnect delay lies between the
\* configured minimum and maximum, and after k consecutive failed disconnects
\* since the last successful connection it is min(min * 2^k, max).
C22_DelayBoundedAndDoubling ==
    /\ delayMin <= delay
    /\ delay <= delayMax
    /\ delay = Min2(delayMin * 2^fails, delayMax)

\* the same statement for the configurations with min <= max
C22_DelayBoundedWhenOrdered ==
    delayMin <= delayMax => C22_DelayBoundedAndDoubling

\* the wildcard rules in closed form: up to the first "#" of the pattern (or
\* its end) every pattern segment faces a topic segment that it equals or
\* that it covers as "+", and without a "#" the lengths agree
HashAt(p) ==
    IF \E i \in 1..Len(p) : p[i] = "#"
      THEN CHOOSE i \in 1..Len(p) : p[i] = "#" /\ \A j \in 1..(i - 1) : p[j] # "#"
      ELSE Len(p) + 1

WildcardRules(p, t) ==
    /\ \A i \in 1..(HashAt(p) - 1) : i <= Len(t) /\ (p[i] = "+" \/ p[i] = t[i])
    /\ HashAt(p) > Len(p) => Len(p) = Len(t)

\* C24: _matches_topic follows the wildcard rules for every pattern and topic
\* over the segment alphabet: "+" stands for exactly one segment, "#" for the
\* whole remainder, a pattern without "#" matches only topics of its own
\* length; sensors/+/temperature matches sensors/motor-001/temperature and not
\* sensors/motor-001/vibration/extra, and sensors/# matches both.
C24_MatchFollowsWildcardRules ==
    /\ mResult \in {"true", "false"} =>
          (mResult = "true" <=> WildcardRules(mPattern, mTopic))
    /\ mResult = "true" /\ HashAt(mPattern) > Len(mPattern) =>
          Len(mTopic) = Len(mPattern)
    /\ MatchesTopic(<<"sensors", "+", "temperature">>,
                    <<"sensors", "motor-001", "temperature">>)
    /\ ~MatchesTopic(<<"sensors", "+", "temperature">>,
                     <<"sensors", "motor-001", "vibration", "extra">>)
    /\ MatchesTopic(<<"sensors", "#">>,
                    <<"sensors", "motor-001", "temperature">>)
    /\ MatchesTopic(<<"sensors", "#">>,
                    <<"sensors", "motor-001", "vibration", "extra">>)

C24_Witness ==
    /\ mResult = "true"
    /\ mPattern = <<"a", "+", "#">>
    /\ mTopic = <<"a", "b", "b", "a">>
    /\ midx = 3

IsWildcard(p) == \E i \in 1..Len(p) : p[i] \in {"+", "#"}

\* positions of the table whose pattern is the topic itself
ExactEntries == {i \in 1..Len(table) : table[i].pat = dTopic}

\* positions of the table holding a wildcard pattern that matches the topic
WildEntries ==
    {i \in 1..Len(table) :
        IsWildcard(table[i].pat) /\ MatchesTopic(table[i].pat, dTopic)}

\* C23: a message invokes at most one callback: the callback of the pattern
\* equal to the topic if there is one, even when wildcard patterns registered
\* earlier match too; otherwise the callback of the earliest-registered
\* matching wildcard pattern; none if no pattern matches.
C23_DispatchSelectsOne ==
    dTopic # <<>> =>
        /\ Cardinality(invoked) <= 1
        /\ \A i \in ExactEntries : invoked = {table[i].cb}
        /\ ExactEntries = {} =>
              \A i \in WildEntries :
                  (\A j \in WildEntries : i <= j) => invoked = {table[i].cb}
        /\ ExactEntries = {} /\ WildEntries = {} => invoked = {}

C23_Witness ==
    /\ dTopic = <<"a", "b">>
    /\ Len(table) = 2
    /\ table[1].pat = <<"a", "+">>
    /\ table[2].pat = dTopic
    /\ table[1].cb # table[2].cb
    /\ invoked = {table[2].cb}

\* disconnect() has returned and connect() has not been called since
Disconnected == dpc = "done"

\* C25: after disconnect() has returned the connector is disconnected
\* (is_connected() is false, no session, no network loop), and until connect()
\* is called again the backoff delay is not changed, no connection is
\* attempted, the connector does not become connected and no inbound message
\* is dispatched.
C25_DisconnectIsFinal ==
    /\ [](Disconnected => ~connected /\ ~session /\ ~loopOn /\ ocpc = "idle")
    /\ [][Disconnected /\ Disconnected' =>
             /\ delay' = delay
             /\ fails' = fails
             /\ sessions' = sessions
             /\ dispatched' = dispatched
             /\ ~connected']_vars

C25_Witness ==
    /\ Disconnected
    /\ dispatched >= 1
    /\ delay > delayMin
    /\ subpc = "issue"

\* the transform has returned a dict that lacks some required key
ReturnedIncomplete ==
    /\ \A k \in RequiredKeys : output[k] # "none"
    /\ retKeys # RequiredKeys

\* C26: a transform output that lacks some of the required keys does not get
\* the message rejected: the missing keys are filled from the message
\* (raw_value and twin_estimate from its value, 0.0 when it has none,
\* anomaly_flag false), the keys that are present keep the transform's
\* values, the record is handed to every sink, messages_processed grows by
\* one and processing_errors does not grow.
C26_MissingKeysFilled ==
    pmpc = "done" /\ ReturnedIncomplete =>
        /\ \A k \in retKeys : output[k] = TransformValue(k)
        /\ \A k \in {"raw_value", "twin_estimate"} \ retKeys :
              output[k] = IF payload.value = "absent" THEN "num_0"
                          ELSE payload.value
        /\ "anomaly_flag" \notin retKeys => output["anomaly_flag"] = "false"
        /\ record.raw_value = output["raw_value"]
        /\ record.twin_estimate = output["twin_estimate"]
        /\ record.anomaly_flag = output["anomaly_flag"]
        /\ pmWritten \cup pmFailed = 1..Len(sinks)
        /\ messages_processed = 1
        /\ processing_errors = 0

C26_Witness ==
    /\ pmpc = "done"
    /\ retKeys = {"twin_estimate"}
    /\ payload.value = "num_7"
    /\ record.raw_value = "num_7"
    /\ record.twin_estimate = "num_4"
    /\ record.anomaly_flag = "false"
    /\ pmWritten = {1}
    /\ pmFailed = {2}
    /\ messages_processed = 1

\* C27: parse_ingress_message with strict = false never raises, whatever the
\* payload: missing or invalid fields are replaced by defaults (asset_id
\* "unknown", value 0.0, the current time) and an envelope is returned;
\* with strict = true an invalid payload raises a validation error.
C27_LenientParseNeverRaises ==
    pmpc \in {"returned", "raised"} =>
        /\ ~strict => pmpc = "returned" /\ envelope.status = "ok"
        /\ strict /\ ~StrictValid(payload) =>
              pmpc = "raised" /\ envelope.status = "ValidationError"

\* what holds of the lenient mode: it returns an envelope unless the value is
\* present and no number or the asset_id is present and no string
C27_LenientParseRaisesOnlyOnBadType ==
    pmpc \in {"returned", "raised"} /\ ~strict =>
        (pmpc = "raised" <=>
            payload.value \in {"null", "str_bad"} \/ payload.asset = "int_5")

\* C28: every sink write failure is counted: the sink-write-error counter
\* equals the number of write() calls that have raised, so it grows by one
\* with each of them and does not change otherwise.
C28_SinkWriteFailuresCounted ==
    metrics["sink_write_errors"] = Cardinality(writeFailed)

\* C29: the counters served by GET /metrics are those of the runtime:
\* received, processed, dropped on overflow and processing errors.
C29_MetricsTrackRuntime ==
    /\ metrics["messages_received"] = messages_received
    /\ metrics["messages_processed"] = messages_processed
    /\ metrics["messages_dropped"] = dropped
    /\ metrics["processing_errors"] = processing_errors

\* C30: every GET /metrics request completes: to_dict terminates and the
\* request is answered with status 200, whatever the other threads do.
C30_MetricsRequestCompletes ==
    (hpc = "get") ~> (hpc = "responded" /\ hstatus = 200)

\* where the request stays: the handler waits for the lock it holds
C30_HandlerWaitsOnOwnLock ==
    (hpc = "get") ~> [](hpc = "uptime" /\ mlock = "handler" /\ hstatus = 0)

\* C31: with one worker, messages are processed in the order in which they
\* were put on the queue (messages are numbered in that order): a message is
\* taken from the queue, passed to process() and written to a sink only
\* after every lower-numbered message that was, so overflow drops omit
\* messages and never reorder them.
C31_OneWorkerKeepsOrder ==
    [][\A w \in Workers :
         /\ wpc[w] = "get" /\ wpc'[w] = "parse" =>
               \A m \in dequeued : m < wmsg'[w]
         /\ wpc[w] = "process" /\ wpc'[w] # "process" =>
               \A m \in processCalled : m < wmsg[w]
         /\ wpc[w] = "write" /\ written' # written =>
               \A m \in written[widx[w]] : m < wmsg[w]]_vars

C31_Witness ==
    /\ nworkers = 1
    /\ dropped >= 1
    /\ processCalled = {1, 3}
    /\ written[1] = {1, 3}
    /\ written[2] = {1, 3}

\* TwinRuntime._on_message, runner.py lines 193-194: how the ingestion
\* callback ends for an outcome r of put(). A boolean is tested (false is
\* logged as a warning); there is no try around the call, so an exception
\* raised by put() leaves the callback.
CallbackOutcome(r) ==
    IF r \in {"raise_Full", "raise_QueueOverflowError"} THEN "raised"
    ELSE IF r \in {"true", "false"} THEN "returned"
    ELSE "running"

\* C32: under the block policy the queue-overflow error raised by put() after
\* its timeout is caught and logged by the ingestion callback itself, so the
\* callback never ends by raising into the connector's network thread.
C32_OverflowCaughtInCallback ==
    policy = "block" => CallbackOutcome(ret[NetThread]) # "raised"

C34_NoRetryNoRedirect ==
    [][/\ \A w \in Workers :
            /\ wpc[w] = "get" /\ wpc'[w] = "parse" => wmsg'[w] \notin dequeued
            /\ wpc[w] = "process" /\ wpc'[w] # "process" =>
                   wmsg[w] \notin processCalled
       /\ \A m \in procRaised' :
            /\ \A i \in 1..MaxSinks : m \notin written'[i]
            /\ \A j \in 1..Len(q') : q'[j] # m
            /\ \A w \in Workers :
                   wmsg'[w] = m => wpc'[w] \in {"err", "loop", "get", "exited"}]_vars

\* the first message's process() raised, the second message was processed
\* and written to every sink, and both workers are back at their loop
C34_Witness ==
    /\ procRaised = {1}
    /\ processCalled = {1, 2}
    /\ \A i \in 1..MaxSinks : written[i] = {2}
    /\ processing_errors = 1
    /\ messages_processed = 1
    /\ q = << >>

\* stop() is done with sink i: close() was called on it, or its flush()
\* or close() raised
SinkDone(i) ==
    /\ flushCalls[i] = 1
    /\ closeCalls[i] = 1 \/ <<"flush", i>> \in tdRaised

\* join() has returned for every worker: the worker has exited or the
\* warning for it was logged
AllJoined == \A w \in 1..nworkers : wpc[w] = "exited" \/ w \in joinWarned

\* C35: the teardown of a stop() call runs in a fixed order, each step after
\* the previous one finished: the running flag is cleared before the first
\* join, shutdown() is called once every worker was joined, a sink is
\* flushed once shutdown() was called and the sinks before it are done,
\* closed once its flush() returned, the connector is disconnected once
\* every sink is done, and the health surface is stopped after that.
C35_TeardownInOrder ==
    [][/\ joinWarned' # joinWarned => ~running
       /\ shutdownCalls' # shutdownCalls =>
            /\ ~running
            /\ AllJoined
            /\ \A i \in 1..MaxSinks : flushCalls[i] = 0 /\ closeCalls[i] = 0
       /\ \A i \in 1..MaxSinks :
            /\ flushCalls'[i] # flushCalls[i] =>
                   /\ shutdownCalls = 1
                   /\ \A j \in 1..(i - 1) : SinkDone(j)
                   /\ \A j \in i..MaxSinks : flushCalls[j] = 0
                   /\ discCalls = 0
            /\ closeCalls'[i] # closeCalls[i] =>
                   /\ flushCalls[i] = 1
                   /\ <<"flush", i>> \notin tdRaised
                   /\ \A j \in (i + 1)..MaxSinks : flushCalls[j] = 0
                   /\ discCalls = 0
       /\ discCalls' # discCalls =>
            /\ \A i \in 1..Len(sinks) : SinkDone(i)
            /\ healthStops = 0
            /\ health # "stopped"
       /\ \A s \in Stoppers :
            (healthStops' # healthStops \/ lastStop'[s] = "teardown") =>
                discCalls = 1]_vars

\* a stop() call went through the whole teardown with two sinks, the flush
\* of the first sink raising, and stopped the health surface last
C35_Witness ==
    /\ lastStop[MainStopper] = "teardown"
    /\ shutdownCalls = 1
    /\ Len(sinks) = MaxSinks
    /\ <<"flush", 1>> \in tdRaised
    /\ closeCalls[MaxSinks] = 1
    /\ discCalls = 1
    /\ healthStops = 1

\* no worker holds a message it has not counted yet
NoneInFlight ==
    \A w \in Workers : wpc[w] \in {"unstarted", "loop", "get", "exited"}

\* C36: with one or two workers, whenever no message is in flight the sum
\* of messages_processed and processing_errors is the number of messages
\* dequeued and at most messages_received; each counting step raises one of
\* the two counters by one and leaves the other alone.
C36_CountersAccountForDequeued ==
    [][/\ NoneInFlight' =>
            /\ messages_processed' + processing_errors' = Cardinality(dequeued')
            /\ messages_processed' + processing_errors' <= messages_received'
       /\ \A w \in Workers :
            wpc[w] \in {"count_write", "err_write"} /\ wpc'[w] = "unlock" =>
                messages_processed' + processing_errors'
                    = messages_processed + processing_errors + 1]_vars

\* two workers counted at the same time, one a processed message and one
\* an error, and both are back at the loop
C36_Witness ==
    /\ nworkers = MaxWorkers
    /\ NoneInFlight
    /\ messages_processed = 1
    /\ processing_errors = 1
    /\ Cardinality(dequeued) = 2
    /\ \A w \in Workers : wmsg[w] # 0

\* no put() is in progress (a get() is one step)
NoPutInProgress == \A p \in Producers : pc[p] = "idle"

\* how often item x stands in sequence s
Occurrences(s, x) == Cardinality({j \in 1..Len(s) : s[j] = x})

\* C37: under the two drop policies, whenever no put or get is in progress
\* total_put = size + items returned by get + dropped; no item is on the
\* queue or returned twice, or both on the queue and returned.
C37_QueueAccountingConserved ==
    NoPutInProgress =>
        /\ total_put = Len(q) + Len(got) + dropped
        /\ \A x \in 1..MaxPuts : Occurrences(q, x) + Occurrences(got, x) <= 1

\* the last connect() raised and connect() has not been called since
ConnectFailed ==
    /\ connectRaised # "none"
    /\ ~connRunning
    /\ dpc = "idle"

\* C38: from a failed connect() until the next connect() call is_connected()
\* is false and no inbound message is handed to a callback, also when the
\* broker accepts the connection after the timeout.
C38_FailedConnectStaysQuiet ==
    [][ConnectFailed' =>
          /\ ~connected'
          /\ ConnectFailed => dispatched' = dispatched]_vars

\* C39: when a stop() call that performed the teardown has returned,
\* close() was called on every sink start() had opened, also on a sink
\* whose flush() raised.
C39_EverySinkClosed ==
    \A s \in Stoppers :
        lastStop[s] = "teardown" =>
            \A i \in 1..Len(sinks) : closeCalls[i] >= 1

\* C40: once stop() has called shutdown() no worker invokes process(), and
\* once close() was called on a sink no worker invokes write() on it, also
\* for a worker that was still busy when its join timed out.
C40_TeardownNeverOverlapsProcessing ==
    [][\A w \in Workers :
         /\ wpc[w] = "process" /\ wpc'[w] # "process" => shutdownCalls = 0
         /\ wpc[w] = "write" /\ <<wpc'[w], widx'[w]>> # <<wpc[w], widx[w]>> =>
                closeCalls[widx[w]] = 0]_vars

====
